---- MODULE Spec2Model ----
(***************************************************************************)
(* Translation pipeline of TraderJohn-Database:                            *)
(*   QueryGenerator        (src/utils/query_generator.py)                  *)
(*   MongoDBQueryGenerator (src/utils/mongodb_query_generator.py)          *)
(* Python str values are TLA+ strings; a character is a string of length 1.*)
(* None is the empty tuple and a present optional value x is <<x>>.        *)
(***************************************************************************)
EXTENDS Integers, Sequences, FiniteSets, TLC

\* ------------------------------------------------------------------------
\* Bounds of the model
\* ------------------------------------------------------------------------
\* longest where list of a supplied IR
MaxWhere == 4
\* longest aggregates list of a supplied IR
MaxAggs == 2

\* ------------------------------------------------------------------------
\* Python str primitives
\* ------------------------------------------------------------------------
None == <<>>
Some(x) == <<x>>

Ch(s, i) == SubSeq(s, i, i)
From(s, i) == SubSeq(s, i, Len(s))

Lowers == "abcdefghijklmnopqrstuvwxyz"
Uppers == "ABCDEFGHIJKLMNOPQRSTUVWXYZ"
Digits == "0123456789"
CharSet(s) == {Ch(s, i) : i \in 1..Len(s)}
LowerSet == CharSet(Lowers)
UpperSet == CharSet(Uppers)
Digit == CharSet(Digits)
Alpha == LowerSet \cup UpperSet
\* \w and \s of the re module, over the characters the texts are built from
Word == Alpha \cup Digit \cup {"_"}
Space == {" "}
Quote == {"'", "\""}

ToLower == [c \in UpperSet |-> Ch(Lowers, CHOOSE i \in 1..26 : Ch(Uppers, i) = c)]
ToUpper == [c \in LowerSet |-> Ch(Uppers, CHOOSE i \in 1..26 : Ch(Lowers, i) = c)]
LowerCh(c) == IF c \in UpperSet THEN ToLower[c] ELSE c
UpperCh(c) == IF c \in LowerSet THEN ToUpper[c] ELSE c

Min(S) == CHOOSE x \in S : \A y \in S : x <= y
Max(S) == CHOOSE x \in S : \A y \in S : x >= y

\* s.lower() and s.upper(), by halves
RECURSIVE lower(_)
lower(s) == IF Len(s) = 0 THEN ""
            ELSE IF Len(s) = 1 THEN LowerCh(s)
            ELSE lower(SubSeq(s, 1, Len(s) \div 2)) \o lower(From(s, Len(s) \div 2 + 1))

RECURSIVE upper(_)
upper(s) == IF Len(s) = 0 THEN ""
            ELSE IF Len(s) = 1 THEN UpperCh(s)
            ELSE upper(SubSeq(s, 1, Len(s) \div 2)) \o upper(From(s, Len(s) \div 2 + 1))

StartsAt(s, i, sub) == /\ i + Len(sub) - 1 <= Len(s)
                       /\ SubSeq(s, i, i + Len(sub) - 1) = sub

\* sub in s
In(sub, s) == \E i \in 1..(Len(s) + 1) : StartsAt(s, i, sub)

\* s.find(sub) + 1, 0 when absent
Find(s, sub) ==
    LET at == {i \in 1..(Len(s) + 1) : StartsAt(s, i, sub)}
    IN  IF at = {} THEN 0 ELSE Min(at)

\* s.split(sep), sep non-empty
RECURSIVE split(_, _)
split(s, sep) ==
    LET i == Find(s, sep)
    IN  IF i = 0 THEN <<s>>
        ELSE <<SubSeq(s, 1, i - 1)>> \o split(From(s, i + Len(sep)), sep)

\* s.replace(old, ""), old non-empty
RECURSIVE remove(_, _)
remove(s, old) ==
    LET i == Find(s, old)
    IN  IF i = 0 THEN s
        ELSE SubSeq(s, 1, i - 1) \o remove(From(s, i + Len(old)), old)

lstrip(s, cs) ==
    LET keep == {i \in 1..Len(s) : Ch(s, i) \notin cs}
    IN  IF keep = {} THEN "" ELSE From(s, Min(keep))

rstrip(s, cs) ==
    LET keep == {i \in 1..Len(s) : Ch(s, i) \notin cs}
    IN  IF keep = {} THEN "" ELSE SubSeq(s, 1, Max(keep))

\* s.strip() and s.strip(chars)
strip(s) == rstrip(lstrip(s, Space), Space)
stripChars(s, cs) == rstrip(lstrip(s, cs), cs)

\* s.isdigit()
isdigit(s) == s # "" /\ \A i \in 1..Len(s) : Ch(s, i) \in Digit

\* sep.join(parts)
RECURSIVE join(_, _)
join(sep, parts) ==
    IF parts = <<>> THEN ""
    ELSE IF Len(parts) = 1 THEN parts[1]
    ELSE parts[1] \o sep \o join(sep, Tail(parts))

DigitVal(c) == (CHOOSE i \in 1..10 : Ch(Digits, i) = c) - 1

\* str(n) for an int n
RECURSIVE NatStr(_)
NatStr(n) == IF n < 10 THEN Ch(Digits, n + 1)
             ELSE NatStr(n \div 10) \o Ch(Digits, (n % 10) + 1)
str(n) == IF n < 0 THEN "-" \o NatStr(0 - n) ELSE NatStr(n)

\* ------------------------------------------------------------------------
\* Python re: backtracking matcher (leftmost match, alternatives and
\* quantifiers tried in priority order).  A pattern is a tree of the nodes
\* below; groups are numbered as in the pattern text.
\* ------------------------------------------------------------------------
Lit(s) == [t |-> "lit", s |-> s]
Cls(S) == [t |-> "cls", neg |-> FALSE, S |-> S]
NCls(S) == [t |-> "cls", neg |-> TRUE, S |-> S]
Cat(rs) == [t |-> "cat", rs |-> rs]
Alt(rs) == [t |-> "alt", rs |-> rs]
\* c*, c+, c*? and c+? for a character class c
Star(c) == [t |-> "star", c |-> c, min |-> 0, lazy |-> FALSE]
Plus(c) == [t |-> "star", c |-> c, min |-> 1, lazy |-> FALSE]
LazyStar(c) == [t |-> "star", c |-> c, min |-> 0, lazy |-> TRUE]
\* (?:r)*? for any pattern r
LazyRep(r) == [t |-> "rep", r |-> r]
Opt(r) == Alt(<<r, Cat(<<>>)>>)
Grp(n, r) == [t |-> "grp", n |-> n, r |-> r]
Eos == [t |-> "eos"]
WordBoundary == [t |-> "wb"]
GrpEnd(n, p) == [t |-> "end", n |-> n, p |-> p]
Progress(p) == [t |-> "chk", p |-> p]

\* \s+  \s*  [a-zA-Z_]\w*  \w+  \d+  .
Ws1 == Plus(Cls(Space))
Ws0 == Star(Cls(Space))
Ident == Cat(<<Cls(Alpha \cup {"_"}), Star(Cls(Word))>>)
Word1 == Plus(Cls(Word))
Digit1 == Plus(Cls(Digit))
AnyCh == NCls({})
Words(ws) == Alt([i \in 1..Len(ws) |-> Lit(ws[i])])

\* a pattern of the program has at most four groups
NoGroups == [n \in 1..4 |-> <<0, 0>>]
NoMatch == [ok |-> FALSE, b |-> 0, e |-> 0, g |-> NoGroups]

LitAt(s, i, l, ic) ==
    /\ i + Len(l) - 1 <= Len(s)
    /\ \A k \in 1..Len(l) :
          IF ic THEN LowerCh(Ch(s, i + k - 1)) = LowerCh(Ch(l, k))
                ELSE Ch(s, i + k - 1) = Ch(l, k)

ClsAt(s, i, r, ic) ==
    /\ i <= Len(s)
    /\ LET c == Ch(s, i)
           m == IF ic THEN LowerCh(c) \in r.S \/ UpperCh(c) \in r.S ELSE c \in r.S
       IN  m # r.neg

\* number of consecutive characters of class c from position i on
RunLen(s, i, c, ic) ==
    IF ~ClsAt(s, i, c, ic) THEN 0
    ELSE LET bad == {j \in (i + 1)..Len(s) : ~ClsAt(s, j, c, ic)}
         IN  IF bad = {} THEN Len(s) - i + 1 ELSE Min(bad) - i

\* of the attempts <<priority, result>>, the successful one of least priority number
First(tries) ==
    LET oks == {x \in tries : x[2].ok}
    IN  IF oks = {} THEN NoMatch
        ELSE (CHOOSE x \in oks : \A y \in oks : x[1] <= y[1])[2]

RECURSIVE Match(_, _, _, _, _)
Match(todo, s, i, g, ic) ==
    IF Len(todo) = 0 THEN [ok |-> TRUE, b |-> 0, e |-> i, g |-> g]
    ELSE
    LET r == Head(todo)
        rest == Tail(todo)
    IN  CASE r.t = "lit" ->
               IF LitAt(s, i, r.s, ic) THEN Match(rest, s, i + Len(r.s), g, ic) ELSE NoMatch
          [] r.t = "cls" ->
               IF ClsAt(s, i, r, ic) THEN Match(rest, s, i + 1, g, ic) ELSE NoMatch
          [] r.t = "cat" -> Match(r.rs \o rest, s, i, g, ic)
          [] r.t = "alt" ->
               First({<<k, Match(<<r.rs[k]>> \o rest, s, i, g, ic)>> : k \in 1..Len(r.rs)})
          [] r.t = "star" ->
               LET n == RunLen(s, i, r.c, ic)
               IN  First({<<IF r.lazy THEN k ELSE n - k, Match(rest, s, i + k, g, ic)>> :
                             k \in r.min..n})
          [] r.t = "rep" ->
               LET a == Match(rest, s, i, g, ic)
               IN  IF a.ok THEN a ELSE Match(<<r.r, Progress(i), r>> \o rest, s, i, g, ic)
          [] r.t = "grp" -> Match(<<r.r, GrpEnd(r.n, i)>> \o rest, s, i, g, ic)
          [] r.t = "end" -> Match(rest, s, i, [g EXCEPT ![r.n] = <<r.p, i>>], ic)
          [] r.t = "chk" -> IF i > r.p THEN Match(rest, s, i, g, ic) ELSE NoMatch
          [] r.t = "eos" -> IF i = Len(s) + 1 THEN Match(rest, s, i, g, ic) ELSE NoMatch
          [] r.t = "wb" ->
               IF (i > 1 /\ Ch(s, i - 1) \in Word) # (i <= Len(s) /\ Ch(s, i) \in Word)
               THEN Match(rest, s, i, g, ic) ELSE NoMatch

\* the leftmost match of re in s
SearchFrom(re, s, ic) ==
    First({<<i, [Match(<<re>>, s, i, NoGroups, ic) EXCEPT !.b = i]>> : i \in 1..(Len(s) + 1)})

\* re.search(pattern, s) and re.search(pattern, s, re.IGNORECASE)
search(re, s) == SearchFrom(re, s, FALSE)
searchI(re, s) == SearchFrom(re, s, TRUE)
\* re.match(pattern, s) with the (?i) flag
matchI(re, s) == Match(<<re>>, s, 1, NoGroups, TRUE)

\* m.group(n); an unset group is None in Python and is tested with HasGroup
HasGroup(m, n) == m.g[n][1] # 0
group(s, m, n) == SubSeq(s, m.g[n][1], m.g[n][2] - 1)

\* re.split(pattern, s, maxsplit): maxsplit = 0 is unlimited
RECURSIVE resplit(_, _, _, _)
resplit(re, s, maxsplit, ic) ==
    LET at(m) ==
            IF ~m.ok \/ m.e = m.b THEN <<s>>
            ELSE IF maxsplit = 1 THEN <<SubSeq(s, 1, m.b - 1), From(s, m.e)>>
            ELSE <<SubSeq(s, 1, m.b - 1)>>
                 \o resplit(re, From(s, m.e), IF maxsplit = 0 THEN 0 ELSE maxsplit - 1, ic)
    IN  at(SearchFrom(re, s, ic))

\* re.sub(pattern, repl, s) for a constant replacement
RECURSIVE resub(_, _, _, _)
resub(re, repl, s, ic) ==
    LET at(m) ==
            IF ~m.ok \/ m.e = m.b THEN s
            ELSE SubSeq(s, 1, m.b - 1) \o repl \o resub(re, repl, From(s, m.e), ic)
    IN  at(SearchFrom(re, s, ic))

\* ------------------------------------------------------------------------
\* Python values held by a pipeline: str, int and float.  int(s) and
\* float(s) accept surrounding blanks, a sign, digits grouped by single
\* underscores and, for float, a fraction and an exponent.
\* ------------------------------------------------------------------------
StrV(s) == [t |-> "str", s |-> s, n |-> 0, x |-> 0]
IntV(n) == [t |-> "int", s |-> "", n |-> n, x |-> 0]
\* the float n * 10^x, n not a multiple of 10 unless 0
FloatV(n, x) == [t |-> "float", s |-> "", n |-> n, x |-> x]

IsDigitPart(s) ==
    /\ s # ""
    /\ \A i \in 1..Len(s) : Ch(s, i) \in Digit \cup {"_"}
    /\ Ch(s, 1) # "_" /\ Ch(s, Len(s)) # "_"
    /\ ~In("__", s)

Unsigned(s) == IF s # "" /\ Ch(s, 1) \in {"+", "-"} THEN From(s, 2) ELSE s
Sign(s) == IF s # "" /\ Ch(s, 1) = "-" THEN 0 - 1 ELSE 1

\* value of a digit string, by halves
RECURSIVE Pow10(_)
Pow10(k) == IF k = 0 THEN 1 ELSE 10 * Pow10(k - 1)
RECURSIVE DigitsVal(_)
DigitsVal(s) ==
    IF Len(s) = 0 THEN 0
    ELSE IF Len(s) = 1 THEN DigitVal(s)
    ELSE LET h == Len(s) \div 2
         IN  DigitsVal(SubSeq(s, 1, h)) * Pow10(Len(s) - h) + DigitsVal(From(s, h + 1))

\* int(s) succeeds
IsPyInt(s) == IsDigitPart(Unsigned(strip(s)))
PyInt(s) == IntV(Sign(strip(s)) * DigitsVal(remove(Unsigned(strip(s)), "_")))

\* mantissa "d.d", "d." or ".d" and the optional exponent "e[+-]d"
Mantissa(u) == LET k == Find(lower(u), "e") IN IF k = 0 THEN u ELSE SubSeq(u, 1, k - 1)
Exponent(u) == LET k == Find(lower(u), "e") IN IF k = 0 THEN "" ELSE From(u, k + 1)
IsMantissa(m) ==
    LET k == Find(m, ".")
        ip == IF k = 0 THEN m ELSE SubSeq(m, 1, k - 1)
        fp == IF k = 0 THEN "" ELSE From(m, k + 1)
    IN  /\ ip # "" \/ fp # ""
        /\ ip = "" \/ IsDigitPart(ip)
        /\ fp = "" \/ IsDigitPart(fp)

\* float(s) succeeds, for s holding no letters but the exponent mark
IsPyFloat(s) ==
    LET u == Unsigned(strip(s))
    IN  /\ IsMantissa(Mantissa(u))
        /\ Find(lower(u), "e") # 0 => IsDigitPart(Unsigned(Exponent(u)))

RECURSIVE Normal(_, _)
Normal(n, x) == IF n = 0 THEN FloatV(0, 0)
                ELSE IF n % 10 = 0 THEN Normal(n \div 10, x + 1)
                ELSE FloatV(n, x)

PyFloat(s) ==
    LET u == Unsigned(strip(s))
        m == remove(Mantissa(u), "_")
        k == Find(m, ".")
        fp == IF k = 0 THEN "" ELSE From(m, k + 1)
        e == Exponent(u)
        ev == IF e = "" THEN 0 ELSE Sign(e) * DigitsVal(remove(Unsigned(e), "_"))
    IN  Normal(Sign(strip(s)) * DigitsVal(remove(m, ".")), ev - Len(fp))

\* ------------------------------------------------------------------------
\* QueryGenerator (src/utils/query_generator.py)
\* An IR (components) is a record; where and having hold <<field, op, value>>,
\* aggregates <<agg_type, field, alias>>, order_by None or <<field, direction>>.
\* ------------------------------------------------------------------------
\* truth value of a str-or-None
Truthy(o) == o # None /\ o[1] # ""

\* sort_patterns, condition_patterns and group_patterns of __init__
Phrase(ws) == Cat([i \in 1..(2 * Len(ws) - 1) |-> IF i % 2 = 1 THEN Lit(ws[(i + 1) \div 2]) ELSE Ws1])

sort_patterns_DESC ==
    <<Lit("descending"), Lit("desc"), Lit("decreasing"), Lit("declining"),
      Phrase(<<"larger", "to", "smaller">>), Phrase(<<"highest", "to", "lowest">>)>>
sort_patterns_ASC ==
    <<Lit("ascending"), Lit("asc"), Lit("increasing"), Lit("growing"),
      Phrase(<<"smaller", "to", "larger">>), Phrase(<<"lowest", "to", "highest">>)>>

\* [\'"]*([^\'"\s]+)[\'"]*  and  (\d*\.?\d*), both as group 2
QuotedValue == Cat(<<Star(Cls(Quote)), Grp(2, Plus(NCls(Quote \cup Space))), Star(Cls(Quote))>>)
Number == Grp(2, Cat(<<Star(Cls(Digit)), Opt(Lit(".")), Star(Cls(Digit))>>))
Field == Grp(1, Ident)

equals_patterns ==
    <<Cat(<<Field, Ws1,
            Alt(<<Lit("is"), Lit("equals"), Phrase(<<"equal", "to">>), Lit("="),
                  Phrase(<<"identical", "to">>), Lit("matches"), Phrase(<<"same", "as">>)>>),
            Ws1, QuotedValue>>),
      Cat(<<Lit("whose"), Ws1, Field, Ws1, Words(<<"is", "equals", "matches">>),
            Ws1, QuotedValue>>),
      Cat(<<Field, Ws1, Alt(<<Phrase(<<"with", "value">>), Lit("value")>>),
            Ws1, QuotedValue>>)>>

greater_patterns ==
    <<Cat(<<Field, Ws0,
            Alt(<<Lit(">"), Phrase(<<"greater", "than">>), Phrase(<<"more", "than">>),
                  Phrase(<<"larger", "than">>), Phrase(<<"bigger", "than">>),
                  Phrase(<<"higher", "than">>), Lit("exceeds"), Lit("above"), Lit("over")>>),
            Ws0, Number>>),
      Cat(<<Field, Ws1,
            Words(<<"exceeding", "greater", "more", "larger", "bigger", "higher">>),
            Ws1, Lit("than"), Ws0, Number>>),
      Cat(<<Field, Ws1, Lit("at"), Ws1, Lit("least"), Ws0, Number>>)>>

less_patterns ==
    <<Cat(<<Field, Ws0,
            Alt(<<Lit("<"), Phrase(<<"less", "than">>), Phrase(<<"smaller", "than">>),
                  Phrase(<<"lower", "than">>), Lit("under"), Lit("below")>>),
            Ws0, Number>>),
      Cat(<<Field, Ws1,
            Alt(<<Phrase(<<"not", "exceeding">>), Phrase(<<"not", "more", "than">>),
                  Phrase(<<"at", "most">>)>>),
            Ws0, Number>>),
      Cat(<<Field, Ws1, Words(<<"within", "under", "below">>), Ws0, Number>>)>>

not_equals_patterns ==
    <<Cat(<<Field, Ws1,
            Alt(<<Lit("not"), Lit("!="), Phrase(<<"differs", "from">>),
                  Phrase(<<"different", "from">>)>>),
            Ws1, Alt(<<Phrase(<<"equal", "to">>), Lit("equals"), Lit("=")>>),
            Ws1, QuotedValue>>),
      Cat(<<Field, Ws1,
            Alt(<<Phrase(<<"is", "not">>), Lit("isnt"), Phrase(<<"is", "different", "from">>)>>),
            Ws1, QuotedValue>>),
      Cat(<<Field, Ws1,
            Alt(<<Lit("excluding"), Lit("except"), Phrase(<<"other", "than">>)>>),
            Ws1, QuotedValue>>)>>

\* the dict in insertion order
condition_patterns ==
    <<[op_symbol |-> "=", patterns |-> equals_patterns],
      [op_symbol |-> ">", patterns |-> greater_patterns],
      [op_symbol |-> "<", patterns |-> less_patterns],
      [op_symbol |-> "!=", patterns |-> not_equals_patterns]>>

group_patterns ==
    <<Cat(<<Lit("group"), Opt(Lit("ed")), Ws1, Lit("by"), Ws1, Field>>),
      Cat(<<Lit("group"), Ws1, Words(<<"by", "on", "using">>), Ws1, Field>>),
      Cat(<<Lit("categorize"), Opt(Lit("d")), Ws1, Lit("by"), Ws1, Field>>),
      Cat(<<Lit("organize"), Opt(Lit("d")), Ws1, Lit("by"), Ws1, Field>>),
      Cat(<<Lit("split"), Ws1, Lit("by"), Ws1, Field>>),
      Cat(<<Lit("partition"), Opt(Lit("ed")), Ws1, Lit("by"), Ws1, Field>>),
      Cat(<<Words(<<"records", "data", "documents", "results">>), Ws1, Lit("by"), Ws1, Field>>)>>

\* agg_patterns of __init__ in insertion order, as <<agg_type, prefix, pattern>>
agg_patterns ==
    LET lead == Cat(<<Words(<<"find", "get", "show">>), Ws1, Opt(Cat(<<Lit("the"), Ws1>>))>>)
        of(ws) == Cat(<<Words(ws), Ws1, Field>>)
    IN  <<<<"MAX", "max_",
            Cat(<<lead, of(<<"maximum", "highest", "largest", "biggest", "greatest", "peak">>)>>)>>,
          <<"MAX", "max_", of(<<"highest", "largest", "biggest", "maximum", "greatest", "peak">>)>>,
          <<"MAX", "max_", of(<<"max">>)>>,
          <<"MIN", "min_",
            Cat(<<lead, of(<<"minimum", "lowest", "smallest", "least", "bottom">>)>>)>>,
          <<"MIN", "min_", of(<<"lowest", "smallest", "minimum", "least", "bottom">>)>>,
          <<"MIN", "min_", of(<<"min">>)>>,
          <<"AVG", "avg_", Cat(<<lead, of(<<"average", "mean", "typical", "expected">>)>>)>>,
          <<"AVG", "avg_", of(<<"mean", "average", "typical", "expected">>)>>,
          <<"AVG", "avg_", of(<<"avg">>)>>,
          <<"SUM", "sum_",
            Cat(<<lead, Words(<<"sum", "total", "aggregate">>), Ws1,
                  Opt(Cat(<<Lit("of"), Ws1>>)), Field>>)>>,
          <<"SUM", "sum_", of(<<"total", "sum", "aggregate">>)>>,
          <<"SUM", "sum_", Cat(<<Lit("sum"), Ws1, Lit("up"), Ws1, Field>>)>>,
          <<"COUNT", "count_",
            Cat(<<Lit("count"), Ws1, Opt(Cat(<<Lit("the"), Ws1>>)), Opt(Cat(<<Lit("total"), Ws1>>)),
                  Opt(Cat(<<Lit("number"), Ws1, Lit("of"), Ws1>>)), Field>>)>>,
          <<"COUNT", "count_", Cat(<<Lit("how"), Ws1, Lit("many"), Ws1, Field>>)>>,
          <<"COUNT", "count_", Cat(<<Lit("number"), Ws1, Lit("of"), Ws1, Field>>)>>,
          <<"COUNT", "count_", Cat(<<Lit("quantity"), Ws1, Lit("of"), Ws1, Field>>)>>>>

\* the first pattern of the list that is found in s, NoMatch when none is
FirstFound(patterns, s, ic) ==
    First({<<k, SearchFrom(patterns[k], s, ic)>> : k \in 1..Len(patterns)})

\* _parse_sort_direction
parse_sort_direction(text) ==
    LET t == strip(lower(text))
    IN  IF FirstFound(sort_patterns_DESC, t, TRUE).ok THEN "DESC"
        ELSE IF FirstFound(sort_patterns_ASC, t, TRUE).ok THEN "ASC"
        ELSE "ASC"

\* _extract_table_name; available_tables is a list
PrepRe(prep) == Cat(<<Lit(prep), Ws1, Grp(1, Word1)>>)

\* extract_table_name taking the word after a preposition without looking it
\* up in the catalog
extract_table_name_unvalidated(text, available_tables) ==
    LET direct == {k \in 1..Len(available_tables) : In(available_tables[k], text)}
        preps == <<"from", "in", "of">>
        word(m) == IF m.ok THEN Some(group(text, m, 1)) ELSE None
        named(k) == word(search(PrepRe(preps[k]), text))
        found == {k \in 1..Len(preps) : named(k) # None}
    IN  IF direct # {} THEN Some(available_tables[Min(direct)])
        ELSE IF found # {} THEN named(Min(found))
        ELSE None

extract_table_name(text, available_tables) ==
    LET direct == {k \in 1..Len(available_tables) : In(available_tables[k], text)}
        preps == <<"from", "in", "of">>
        word(m) == IF m.ok THEN Some(group(text, m, 1)) ELSE None
        named(k) == word(search(PrepRe(preps[k]), text))
        found == {k \in 1..Len(preps) :
                     \E j \in 1..Len(available_tables) : Some(available_tables[j]) = named(k)}
    IN  IF direct # {} THEN Some(available_tables[Min(direct)])
        ELSE IF found # {} THEN named(Min(found))
        ELSE None

\* _extract_conditions
AndRe == Cat(<<Ws1, Lit("and"), Ws1>>)
BetweenRe == Cat(<<Field, Ws1, Lit("between"), Ws1, Grp(2, Digit1), Ws1, Lit("and"), Ws1,
                   Grp(3, Digit1)>>)

\* the conditions one sub-span contributes: both bounds of a BETWEEN, else
\* one condition for every operator group with a matching pattern
RECURSIVE GroupConditions(_, _)
GroupConditions(groups, subtext) ==
    IF Len(groups) = 0 THEN <<>>
    ELSE LET condition(m) ==
                 IF m.ok
                 THEN <<<<group(subtext, m, 1), groups[1].op_symbol, group(subtext, m, 2)>>>>
                 ELSE <<>>
         IN  condition(FirstFound(groups[1].patterns, subtext, FALSE))
             \o GroupConditions(Tail(groups), subtext)

SubConditions(subtext) ==
    LET conditions_of(b) ==
            IF b.ok
            THEN <<<<group(subtext, b, 1), ">=", group(subtext, b, 2)>>,
                   <<group(subtext, b, 1), "<=", group(subtext, b, 3)>>>>
            ELSE GroupConditions(condition_patterns, subtext)
    IN  conditions_of(search(BetweenRe, subtext))

RECURSIVE AllConditions(_)
AllConditions(subconditions) ==
    IF Len(subconditions) = 0 THEN <<>>
    ELSE SubConditions(subconditions[1]) \o AllConditions(Tail(subconditions))

extract_conditions(text) == AllConditions(resplit(AndRe, text, 0, TRUE))

\* _extract_columns; every pattern carries the (?i) flag
ShowCarsRe == Cat(<<Words(<<"show", "find", "display", "get">>), Ws1,
                    Opt(Cat(<<Lit("all"), Ws1>>)), Lit("cars"), WordBoundary>>)
ColumnList == Grp(1, Cat(<<Ident, LazyRep(Cat(<<Ws0, Lit(","), Ws0, Ident>>))>>))
column_patterns ==
    <<Cat(<<Words(<<"find", "show", "select", "get", "display">>), Ws1, ColumnList,
            Alt(<<Cat(<<Ws1, Lit("from")>>), Cat(<<Ws1, Lit("in")>>), Cat(<<Ws1, Lit("where")>>),
                  Cat(<<Ws1, Lit("order")>>), Cat(<<Ws1, Eos>>)>>)>>),
      Cat(<<Words(<<"calculate", "compute">>), Ws1, ColumnList,
            Alt(<<Cat(<<Ws1, Lit("from")>>), Cat(<<Ws1, Lit("in")>>), Cat(<<Ws1, Lit("where")>>),
                  Cat(<<Ws1, Eos>>)>>)>>)>>

\* [col.strip() for col in cols if col.strip() and col.strip() != '*'
\*                                 and col.strip().lower() != 'cars']
RECURSIVE CleanCols(_)
CleanCols(cols) ==
    IF Len(cols) = 0 THEN <<>>
    ELSE LET col == strip(cols[1])
         IN  (IF col # "" /\ col # "*" /\ lower(col) # "cars" THEN <<col>> ELSE <<>>)
             \o CleanCols(Tail(cols))

MatchedCols(pattern, text) ==
    LET cols(m) == IF m.ok THEN CleanCols(split(strip(group(text, m, 1)), ",")) ELSE <<>>
    IN  cols(searchI(pattern, text))

\* the cleaned columns of the first pattern that yields any, else ['*']
extract_columns(original) ==
    LET some(cols) == cols # <<>>
        first(found) == IF found = <<>> THEN <<"*">> ELSE found[1]
        columns(text) ==
            first(SelectSeq([k \in 1..Len(column_patterns) |->
                                MatchedCols(column_patterns[k], text)], some))
    IN  IF matchI(ShowCarsRe, original).ok THEN <<"*">>
        ELSE columns(resub(AndRe, ", ", original, TRUE))

\* the ORDER BY patterns of extract_query_components
Direction(ws) == Opt(Cat(<<Ws1, Grp(2, Words(ws))>>))
GroupedOrderRe == Cat(<<Words(<<"order", "sort">>), Ws1, Lit("by"), Ws1, Field,
                        Direction(<<"desc", "asc", "descending", "ascending">>)>>)
HavingOrderRe == Cat(<<Lit("order"), Ws1, Lit("by"), Ws1, Field, Direction(<<"desc", "asc">>)>>)
OrderByRe == Cat(<<Words(<<"order", "sort">>), Ws1, Lit("by"), Ws1, Field,
                   Direction(<<"desc", "asc">>)>>)
HavingClauseRe ==
    Cat(<<Field, Ws1, Lit("having"), Ws1, Words(<<"average", "avg">>), Ws1, Grp(2, Ident),
          Ws0, Grp(3, Words(<<">", "<", "=">>)), Ws0, Grp(4, Digit1)>>)

\* (field, group(2).upper() if group(2) else 'ASC') of an ORDER BY match
OrderBy(s, m) ==
    IF m.ok THEN Some(<<group(s, m, 1), IF HasGroup(m, 2) THEN upper(group(s, m, 2)) ELSE "ASC">>)
    ELSE None

\* the components dict extract_query_components starts from
DefaultComponents ==
    [select |-> <<"*">>, from |-> None, where |-> <<>>, having |-> <<>>, group_by |-> <<>>,
     order_by |-> None, aggregates |-> <<>>, limit |-> None]

COUNT_TOTAL == <<"COUNT", "*", "count_total">>

extract_query_components(original_text, available_tables) ==
    LET text == lower(original_text)
        grouped_order(m) ==
            IF m.ok
            THEN Some(<<group(text, m, 1),
                        parse_sort_direction(IF HasGroup(m, 2) THEN group(text, m, 2) ELSE "")>>)
            ELSE None
        having(c, m) ==
            [c EXCEPT !.select = <<group(original_text, m, 1)>>,
                      !.group_by = <<group(original_text, m, 1)>>,
                      !.having = <<<<"AVG(" \o group(original_text, m, 2) \o ")",
                                     group(original_text, m, 3),
                                     group(original_text, m, 4)>>>>,
                      !.order_by =
                          IF In("order by", text)
                          THEN OrderBy(original_text, search(HavingOrderRe, original_text))
                          ELSE None]
        plain(c) ==
            [c EXCEPT !.select = extract_columns(original_text),
                      !.where = extract_conditions(original_text),
                      !.order_by =
                          IF In("order by", text) \/ In("sort by", text)
                          THEN OrderBy(original_text, search(OrderByRe, original_text))
                          ELSE None]
        having_or_plain(c, m) == IF In("having", text) /\ m.ok THEN having(c, m) ELSE plain(c)
        ungrouped(c) ==
            IF In("count", text)
            THEN [c EXCEPT !.aggregates = <<COUNT_TOTAL>>,
                           !.select = <<>>,
                           !.where = extract_conditions(original_text)]
            ELSE having_or_plain(c, search(HavingClauseRe, original_text))
        grouped(c, m) ==
            IF m.ok /\ In("count", text)
            THEN [c EXCEPT !.group_by = <<group(original_text, m, 1)>>,
                           !.select = <<group(original_text, m, 1)>>,
                           !.aggregates = <<COUNT_TOTAL>>,
                           !.order_by = grouped_order(searchI(GroupedOrderRe, text))]
            ELSE ungrouped(IF m.ok THEN [c EXCEPT !.group_by = <<group(original_text, m, 1)>>]
                           ELSE c)
        resolved(c) ==
            IF ~Truthy(c.from) THEN c
            ELSE grouped(c, FirstFound(group_patterns, original_text, FALSE))
    IN  resolved([DefaultComponents EXCEPT !.from = extract_table_name(text, available_tables)])

\* _extract_aggregation: (agg_type, field, prefix + field) for the first pattern
\* whose match captures a field other than in, from, the; no other method
\* calls it
extract_aggregation(text) ==
    LET field(m) == IF m.ok THEN group(text, m, 1) ELSE ""
        named(k) == field(search(agg_patterns[k][3], text))
        first(found) ==
            IF found = {} THEN None
            ELSE Some(<<agg_patterns[Min(found)][1], named(Min(found)),
                        agg_patterns[Min(found)][2] \o named(Min(found))>>)
    IN  first({k \in 1..Len(agg_patterns) : named(k) \notin {"", "in", "from", "the"}})

\* _extract_limit: the number after the first of top, first, limit, show that
\* is followed by digits in text.lower(); no other method calls it
extract_limit(text) ==
    LET number(m) == IF m.ok THEN Some(DigitsVal(group(lower(text), m, 1))) ELSE None
        patterns == [k \in 1..4 |->
                        Cat(<<Lit(<<"top", "first", "limit", "show">>[k]), Ws1, Grp(1, Digit1)>>)]
    IN  number(FirstFound(patterns, lower(text), FALSE))

SelectPart(c) ==
    IF c.aggregates # <<>>
    THEN LET a == c.aggregates[1]
         IN  IF c.group_by # <<>>
             THEN "SELECT " \o join(", ", c.group_by) \o ", "
                  \o a[1] \o "(" \o a[2] \o ") AS " \o a[3]
             ELSE "SELECT " \o a[1] \o "(" \o a[2] \o ") AS " \o a[3]
    ELSE "SELECT " \o join(", ", c.select)

\* value.replace('.', '').isdigit()
RendersBare(value) == isdigit(remove(value, "."))

WhereCondition(cond) ==
    IF RendersBare(cond[3])
    THEN cond[1] \o " " \o cond[2] \o " " \o cond[3]
    ELSE cond[1] \o " " \o cond[2] \o " '" \o cond[3] \o "'"

HavingCondition(cond) == cond[1] \o " " \o cond[2] \o " " \o cond[3]

Optional(present, part) == IF present THEN <<part>> ELSE <<>>

\* sql_parts with the HAVING clause placed before GROUP BY
sql_parts_having_first(c) ==
    <<SelectPart(c)>>
    \o Optional(Truthy(c.from), "FROM " \o c.from[1])
    \o Optional(c.where # <<>>,
                "WHERE " \o join(" AND ", [i \in 1..Len(c.where) |-> WhereCondition(c.where[i])]))
    \o Optional(c.having # <<>>,
                "HAVING " \o join(" AND ", [i \in 1..Len(c.having) |-> HavingCondition(c.having[i])]))
    \o Optional(c.group_by # <<>>, "GROUP BY " \o join(", ", c.group_by))
    \o Optional(c.order_by # None, "ORDER BY " \o c.order_by[1][1] \o " " \o c.order_by[1][2])
    \o Optional(c.limit # None, "LIMIT " \o str(c.limit[1]))

\* the parts list of generate_sql_query
sql_parts(c) ==
    <<SelectPart(c)>>
    \o Optional(Truthy(c.from), "FROM " \o c.from[1])
    \o Optional(c.where # <<>>,
                "WHERE " \o join(" AND ", [i \in 1..Len(c.where) |-> WhereCondition(c.where[i])]))
    \o Optional(c.group_by # <<>>, "GROUP BY " \o join(", ", c.group_by))
    \o Optional(c.having # <<>>,
                "HAVING " \o join(" AND ", [i \in 1..Len(c.having) |-> HavingCondition(c.having[i])]))
    \o Optional(c.order_by # None, "ORDER BY " \o c.order_by[1][1] \o " " \o c.order_by[1][2])
    \o Optional(c.limit # None, "LIMIT " \o str(c.limit[1]))

generate_sql_query(c) == join(" ", sql_parts(c))

\* ------------------------------------------------------------------------
\* MongoDBQueryGenerator (src/utils/mongodb_query_generator.py)
\* A dict is a function on its keys.  A stage {name: spec} is the record
\* [stage |-> name, spec |-> dict]; every dict entry is [op, val]:
\*   field: v            -> [op |-> "eq",   val |-> v]     (also 0, 1, -1, "$_id")
\*   field: {"$gt": v}   -> [op |-> "$gt",  val |-> v]
\*   alias: {"$sum": 1}  -> [op |-> "$sum", val |-> IntV(1)]
\* A call that raises returns exc = TRUE.
\* ------------------------------------------------------------------------
EmptyDict == <<>>
Put(d, k, v) == [x \in (DOMAIN d) \cup {k} |-> IF x = k THEN v ELSE d[x]]
Entry(op, val) == [op |-> op, val |-> val]
Stage(name, spec) == [stage |-> name, spec |-> spec]

\* s.split(): the blank-separated words of s
RECURSIVE words(_)
words(s) ==
    LET u == lstrip(s, Space)
        k == Find(u, " ")
    IN  IF u = "" THEN <<>>
        ELSE IF k = 0 THEN <<u>>
        ELSE <<SubSeq(u, 1, k - 1)>> \o words(From(u, k))

\* [field.strip() for field in s.split(',')]
StripAll(parts) == [i \in 1..Len(parts) |-> strip(parts[i])]

\* operators with the one-character symbols tried first
operators_short_first == <<"=", "<", ">", "<=", ">=", "!=">>

\* the operators dict of _extract_conditions, in insertion order
operators == <<"<=", ">=", "!=", "=", "<", ">">>

\* operator_map of _convert_conditions; '=' is stored directly
operator_map == [op \in {"=", ">", "<", ">=", "<=", "!="} |->
                    CASE op = "=" -> "eq"
                      [] op = ">" -> "$gt"
                      [] op = "<" -> "$lt"
                      [] op = ">=" -> "$gte"
                      [] op = "<=" -> "$lte"
                      [] op = "!=" -> "$ne"]

\* try: float(value) if '.' in value else int(value); except ValueError: keep str
Coerce(value) ==
    IF In(".", value)
    THEN IF IsPyFloat(value) THEN PyFloat(value) ELSE StrV(value)
    ELSE IF IsPyInt(value) THEN PyInt(value) ELSE StrV(value)

\* one pass of the loop body of _extract_conditions: <<>> when no operator
\* occurs in the condition, exc when condition.split(op) is not a pair
ParseCondition(condition) ==
    LET parsed(op, parts) ==
            IF Len(parts) # 2 THEN [exc |-> TRUE, conds |-> <<>>]
            ELSE [exc |-> FALSE,
                  conds |-> <<[field |-> strip(parts[1]), op |-> op,
                               value |-> Coerce(stripChars(strip(parts[2]), Quote))]>>]
        with(op) == parsed(op, split(condition, op))
        first(found) ==
            IF found = {} THEN [exc |-> FALSE, conds |-> <<>>] ELSE with(operators[Min(found)])
    IN  first({k \in 1..Len(operators) : In(operators[k], condition)})

AndSplit == Cat(<<Ws1, Lit("AND"), Ws1>>)

RECURSIVE ParseConditions(_)
ParseConditions(subs) ==
    IF Len(subs) = 0 THEN [exc |-> FALSE, conds |-> <<>>]
    ELSE LET both(h, r) == [exc |-> h.exc \/ r.exc, conds |-> h.conds \o r.conds]
         IN  both(ParseCondition(subs[1]), ParseConditions(Tail(subs)))

\* re.split(r'\s+AND\s+', where_clause, re.IGNORECASE): the third argument
\* of re.split is maxsplit, and re.IGNORECASE is 2
mongo_extract_conditions(where_clause) ==
    ParseConditions(resplit(AndSplit, where_clause, 2, FALSE))

\* _convert_conditions: a later condition on a field replaces the earlier one;
\* operator_map[op] raises KeyError for an operator outside the map
RECURSIVE ConvertInto(_, _)
ConvertInto(d, conditions) ==
    IF Len(conditions) = 0 THEN d
    ELSE LET c == conditions[1]
         IN  ConvertInto(Put(d, c.field, Entry(operator_map[c.op], c.value)),
                         Tail(conditions))

convert_conditions(conditions) ==
    IF \E i \in 1..Len(conditions) : conditions[i].op \notin DOMAIN operator_map
    THEN [exc |-> TRUE, dict |-> EmptyDict]
    ELSE [exc |-> FALSE, dict |-> ConvertInto(EmptyDict, conditions)]

\* the patterns of _parse_sql_query, all searched with re.IGNORECASE
SelectRe == Cat(<<Lit("SELECT"), Ws1, Grp(1, LazyStar(AnyCh)), Ws1, Lit("FROM")>>)
AggRe == Cat(<<Grp(1, Words(<<"COUNT", "SUM", "AVG", "MIN", "MAX">>)), Lit("("),
               Grp(2, LazyStar(AnyCh)), Lit(")"), Ws1, Lit("AS"), Ws1, Grp(3, Word1)>>)
FromRe == Cat(<<Lit("FROM"), Ws1, Grp(1, Word1)>>)
WhereRe == Cat(<<Lit("WHERE"), Ws1, Grp(1, LazyStar(AnyCh)),
                 Alt(<<Cat(<<Ws1, Lit("GROUP BY")>>), Cat(<<Ws1, Lit("ORDER BY")>>),
                       Cat(<<Ws1, Lit("HAVING")>>), Cat(<<Ws1, Lit("LIMIT")>>), Eos>>)>>)
GroupRe == Cat(<<Lit("GROUP BY"), Ws1, Grp(1, LazyStar(AnyCh)),
                 Alt(<<Cat(<<Ws1, Lit("HAVING")>>), Cat(<<Ws1, Lit("ORDER BY")>>),
                       Cat(<<Ws1, Lit("LIMIT")>>), Eos>>)>>)
HavingRe == Cat(<<Lit("HAVING"), Ws1, Grp(1, LazyStar(AnyCh)),
                  Alt(<<Cat(<<Ws1, Lit("ORDER BY")>>), Cat(<<Ws1, Lit("LIMIT")>>), Eos>>)>>)
OrderRe == Cat(<<Lit("ORDER BY"), Ws1, Grp(1, LazyStar(AnyCh)),
                 Alt(<<Cat(<<Ws1, Lit("LIMIT")>>), Eos>>)>>)
LimitRe == Cat(<<Lit("LIMIT"), Ws1, Grp(1, Digit1)>>)

\* the aggregates found in the SELECT fields, in field order
RECURSIVE ParseAggregates(_)
ParseAggregates(fields) ==
    IF Len(fields) = 0 THEN <<>>
    ELSE LET aggregate(f, m) ==
                 IF m.ok THEN <<<<upper(group(f, m, 1)), strip(group(f, m, 2)), group(f, m, 3)>>>>
                 ELSE <<>>
         IN  aggregate(fields[1], searchI(AggRe, fields[1]))
             \o ParseAggregates(Tail(fields))

\* _parse_sql_query; where and having hold [field, op, value] with coerced values
parse_sql_query(sql_query) ==
    LET captured(m) == IF m.ok THEN Some(group(sql_query, m, 1)) ELSE None
        clause(re) == captured(searchI(re, sql_query))
        fields(x) == IF x = None THEN <<>> ELSE StripAll(split(x[1], ","))
        conds(x) == IF x = None THEN [exc |-> FALSE, conds |-> <<>>]
                    ELSE mongo_extract_conditions(x[1])
        parts(x) == IF x = None THEN None ELSE Some(words(strip(x[1])))
        int(x) == IF x = None THEN None ELSE Some(DigitsVal(x[1]))
        parsed(select_fields, w, h, order_parts) ==
            [exc |-> w.exc \/ h.exc \/ order_parts = Some(<<>>),
             select |-> select_fields,
             from |-> clause(FromRe),
             where |-> w.conds,
             group_by |-> fields(clause(GroupRe)),
             order_by |-> IF order_parts # None /\ order_parts # Some(<<>>)
                          THEN Some(<<order_parts[1][1],
                                      IF Len(order_parts[1]) > 1 THEN order_parts[1][2]
                                      ELSE "ASC">>)
                          ELSE None,
             having |-> h.conds,
             limit |-> int(clause(LimitRe)),
             aggregates |-> ParseAggregates(select_fields)]
    IN  parsed(fields(clause(SelectRe)), conds(clause(WhereRe)), conds(clause(HavingRe)),
               parts(clause(OrderRe)))

\* Accumulator with COUNT summing the operand field instead of 1
Accumulator_count_field(agg) ==
    CASE agg[1] = "COUNT" -> Entry("$sum", StrV("$" \o agg[2]))
      [] agg[1] = "SUM" -> Entry("$sum", StrV("$" \o agg[2]))
      [] agg[1] = "AVG" -> Entry("$avg", StrV("$" \o agg[2]))
      [] agg[1] = "MAX" -> Entry("$max", StrV("$" \o agg[2]))
      [] agg[1] = "MIN" -> Entry("$min", StrV("$" \o agg[2]))

\* the accumulator of one aggregate in the $group stage
Accumulator(agg) ==
    CASE agg[1] = "COUNT" -> Entry("$sum", IntV(1))
      [] agg[1] = "SUM" -> Entry("$sum", StrV("$" \o agg[2]))
      [] agg[1] = "AVG" -> Entry("$avg", StrV("$" \o agg[2]))
      [] agg[1] = "MAX" -> Entry("$max", StrV("$" \o agg[2]))
      [] agg[1] = "MIN" -> Entry("$min", StrV("$" \o agg[2]))

RECURSIVE GroupSpec(_, _)
GroupSpec(d, aggs) ==
    IF Len(aggs) = 0 THEN d
    ELSE GroupSpec(Put(d, aggs[1][3], Accumulator(aggs[1])), Tail(aggs))

RECURSIVE KeepAll(_, _)
KeepAll(d, names) ==
    IF Len(names) = 0 THEN d
    ELSE KeepAll(Put(d, names[1], Entry("eq", IntV(1))), Tail(names))

Aliases(aggs) == [i \in 1..Len(aggs) |-> aggs[i][3]]

\* the stages of generate_mongo_query for parsed components c
MatchStages(c) ==
    LET m == convert_conditions(c.where).dict
    IN  Optional(c.where # <<>> /\ m # EmptyDict, Stage("$match", m))

\* GroupStages with the renaming $project placed before the $group
GroupStages_project_first(c) ==
    IF c.group_by = <<>> THEN <<>>
    ELSE <<Stage("$project",
                 KeepAll(Put(Put(EmptyDict, "_id", Entry("eq", IntV(0))),
                             c.group_by[1], Entry("eq", StrV("$_id"))),
                         Aliases(c.aggregates))),
           Stage("$group",
                 GroupSpec(Put(EmptyDict, "_id", Entry("eq", StrV("$" \o c.group_by[1]))),
                           c.aggregates))>>

GroupStages(c) ==
    IF c.group_by = <<>> THEN <<>>
    ELSE <<Stage("$group",
                 GroupSpec(Put(EmptyDict, "_id", Entry("eq", StrV("$" \o c.group_by[1]))),
                           c.aggregates)),
           Stage("$project",
                 KeepAll(Put(Put(EmptyDict, "_id", Entry("eq", IntV(0))),
                             c.group_by[1], Entry("eq", StrV("$_id"))),
                         Aliases(c.aggregates)))>>

SortStages(c) ==
    IF c.order_by = None THEN <<>>
    ELSE <<Stage("$sort",
                 Put(EmptyDict, c.order_by[1][1],
                     Entry("eq", IntV(IF upper(c.order_by[1][2]) = "DESC" THEN 0 - 1 ELSE 1))))>>

\* if components['limit']: None and 0 are both false
LimitStages(c) ==
    IF c.limit = None \/ c.limit = Some(0) THEN <<>>
    ELSE <<Stage("$limit", Put(EmptyDict, "$limit", Entry("eq", IntV(c.limit[1]))))>>

generate_mongo_query(sql_query) ==
    LET query(c) ==
            IF c.exc \/ convert_conditions(c.where).exc
            THEN [exc |-> TRUE, collection |-> None, pipeline |-> <<>>]
            ELSE [exc |-> FALSE, collection |-> c.from,
                  pipeline |-> MatchStages(c) \o GroupStages(c) \o SortStages(c)
                               \o LimitStages(c)]
    IN  query(parse_sql_query(sql_query))

\* the where list of an IR as _convert_conditions reads it: the values are str
IRConditions(where) ==
    [i \in 1..Len(where) |->
        [field |-> where[i][1], op |-> where[i][2], value |-> StrV(where[i][3])]]

\* _create_pipeline(components) on an IR
create_pipeline(c) ==
    LET m == convert_conditions(IRConditions(c.where))
    IN  IF c.where # <<>> /\ m.exc THEN [exc |-> TRUE, pipeline |-> <<>>]
        ELSE [exc |-> FALSE,
              pipeline |->
                  Optional(c.where # <<>>, Stage("$match", m.dict))
                  \o Optional(c.select # <<>> /\ c.select # <<"*">>,
                              Stage("$project",
                                    KeepAll(Put(EmptyDict, "_id", Entry("eq", IntV(0))),
                                            c.select)))]

\* ------------------------------------------------------------------------
\* Inputs: a request text with a catalog, or an IR handed to the synthesizers
\* ------------------------------------------------------------------------
Texts ==
    {"cars", "show all cars", "show me the inventory",
     "average rating from movies",
     "price between 10 and 20",
     "show cars where price between 10 and 20",
     "cars with Price between 5 and 9 and year > 2000",
     "show cars where price > 20000 order by price desc limit 5",
     "cars with price > 5 and year < 2000",
     "find name and price from cars where Price >= 5",
     "get Model from cars sort by Year asc",
     "cars whose color equals red and mileage under 5000",
     "cars where price is not 5",
     "count orders grouped by status",
     "how many cars do we count grouped by Make",
     "count orders where price > 5 grouped by status",
     "count cars where make is 'Toyota'",
     "count cars where Make is 'Toyota'",
     "Count orders grouped by Status order by Status descending",
     "state having avg price > 5 in cars order by state desc",
     "State having avg Price > 5 in cars order by State desc",
     "average price from orders",
     "show the highest Price from cars",
     "find cars order by price desc",
     "find cars ORDER BY price DESC",
     "find cars order by price decreasing",
     "find cars sort by price highest to lowest",
     "find cars order by price",
     "cars with price BETWEEN 5 and 9",
     "count orders Grouped By status",
     "state HAVING avg price > 5 in cars",
     "cars where price Is 5",
     "top 3 cars"}

Catalogs == {<<>>, <<"cars">>, <<"orders", "cars">>, <<"Movies">>}

Ops == {"=", ">", "<", ">=", "<=", "!="}
Values == {"42", "abc", "1.5", "1.2.3", "-5", "."}

\* where lists: every single condition, and the lists over a few conditions
SingleConds == {<<f, op, v>> : f \in {"price"}, op \in Ops, v \in Values}
ListConds == {<<"price", ">=", "10">>, <<"price", "<=", "20">>, <<"year", "=", "abc">>}
RECURSIVE Lists(_, _)
Lists(S, n) == IF n = 0 THEN {<<>>}
               ELSE LET shorter == Lists(S, n - 1)
                    IN  shorter \cup {<<x>> \o l : x \in S, l \in {m \in shorter : Len(m) = n - 1}}

WhereLists == {<<c>> : c \in SingleConds} \cup Lists(ListConds, MaxWhere)

\* aggregates lists: the prefixes of a fixed list
AggList == <<COUNT_TOTAL, <<"AVG", "price", "avg_price">>, <<"MAX", "year", "max_year">>,
             <<"SUM", "price", "sum_price">>>>
AggLists == {SubSeq(AggList, 1, k) : k \in 0..(IF MaxAggs < Len(AggList) THEN MaxAggs ELSE Len(AggList))}

WhereIRs == {[DefaultComponents EXCEPT !.from = Some("cars"), !.where = w] : w \in WhereLists}

\* every combination of present and absent clauses, plain or with the count
ClauseIRs ==
    [select : {<<"*">>},
     from : {None, Some("cars")},
     where : {<<>>, <<<<"price", ">", "42">>>>},
     having : {<<>>, <<<<"AVG(price)", ">", "5">>>>},
     group_by : {<<>>, <<"status">>},
     order_by : {None, Some(<<"price", "DESC">>)},
     aggregates : {<<>>, <<COUNT_TOTAL>>},
     limit : {None, Some(0 - 3), Some(0), Some(5)}]

\* every combination of select columns and aggregates, grouped or not
SelectIRs ==
    [select : {<<"*">>, <<>>, <<"name", "price">>, <<"_id", "name">>},
     from : {None, Some("cars")},
     where : {<<>>},
     having : {<<>>},
     group_by : {<<>>, <<"status">>},
     order_by : {None},
     aggregates : AggLists,
     limit : {None}]

IRs == WhereIRs \cup ClauseIRs \cup SelectIRs

\* ------------------------------------------------------------------------
\* State: one translation request and the results of the calls made on it
\* ------------------------------------------------------------------------
VARIABLES text, available_tables, components, conditions, sql_query, mongo_query, pipeline

\* State of one call of QueryExecutor.execute_transaction: the queries it was
\* given, its position, the index of the next query, the connection, the
\* calls made on the connection and the cursor, the error leaving the call
VARIABLES queries, tx_pc, tx_i, connection, calls, raised

\* State of the bot: the ConversationHandler state of every conversation
\* (chat, user), context.user_data of every user, and what the handler that
\* ran last did
VARIABLES state, user_data, last

translation == <<text, available_tables, components, conditions, sql_query, mongo_query, pipeline>>
executor == <<queries, tx_pc, tx_i, connection, calls, raised>>
chat == <<state, user_data, last>>
vars == <<translation, executor, chat>>

\* conversations are keyed by (chat_id, user_id), user_data by user_id: user
\* 1 talks to the bot in chat 1 and in chat 2
Users == {1}
Conversations == {<<1, 1>>, <<2, 1>>}
User(c) == c[2]

NoRun ==
    [conv |-> <<0, 0>>, handler |-> "", replies |-> <<>>, executions |-> 0, backend |-> "",
     target |-> "", query |-> "", failed |-> FALSE, returned |-> 0, shown |-> 0]

\* no conversation was started
NoConversation ==
    /\ state = [c \in Conversations |-> "END"]
    /\ user_data = [u \in Users |-> <<>>]
    /\ last = NoRun

\* no call of execute_transaction is under way
NoTransaction ==
    /\ queries = <<>> /\ tx_pc = "idle" /\ tx_i = 1
    /\ connection = "none" /\ calls = <<>> /\ raised = None

Init ==
    /\ \/ text \in Texts /\ available_tables \in Catalogs /\ components = None
       \/ text = "" /\ available_tables = <<>> /\ components \in {Some(c) : c \in IRs}
    /\ conditions = None
    /\ sql_query = None
    /\ mongo_query = None
    /\ pipeline = None
    /\ NoTransaction
    /\ NoConversation

\* components = query_generator.extract_query_components(text, available_tables)
ExtractQueryComponents ==
    /\ text # ""
    /\ components = None
    /\ components' = Some(extract_query_components(text, available_tables))
    /\ UNCHANGED <<text, available_tables, conditions, sql_query, mongo_query, pipeline>>
    /\ UNCHANGED <<executor, chat>>

\* conditions = query_generator._extract_conditions(text), on the raw request
ExtractConditions ==
    /\ text # ""
    /\ components = None
    /\ conditions = None
    /\ conditions' = Some(extract_conditions(text))
    /\ UNCHANGED <<text, available_tables, components, sql_query, mongo_query, pipeline>>
    /\ UNCHANGED <<executor, chat>>

\* sql_query = query_generator.generate_sql_query(components)
GenerateSqlQuery ==
    /\ components # None
    /\ sql_query = None
    /\ sql_query' = Some(generate_sql_query(components[1]))
    /\ UNCHANGED <<text, available_tables, components, conditions, mongo_query, pipeline>>
    /\ UNCHANGED <<executor, chat>>

\* mongo_query = mongodb_query_generator.generate_mongo_query(sql_query)
GenerateMongoQuery ==
    /\ sql_query # None
    /\ mongo_query = None
    /\ mongo_query' = Some(generate_mongo_query(sql_query[1]))
    /\ UNCHANGED <<text, available_tables, components, conditions, sql_query, pipeline>>
    /\ UNCHANGED <<executor, chat>>

\* pipeline = mongodb_query_generator._create_pipeline(components)
CreatePipeline ==
    /\ components # None
    /\ pipeline = None
    /\ pipeline' = Some(create_pipeline(components[1]))
    /\ UNCHANGED <<text, available_tables, components, conditions, sql_query, mongo_query>>
    /\ UNCHANGED <<executor, chat>>

Next ==
    \/ ExtractQueryComponents
    \/ ExtractConditions
    \/ GenerateSqlQuery
    \/ GenerateMongoQuery
    \/ CreatePipeline

Spec == Init /\ [][Next]_vars

\* ------------------------------------------------------------------------
\* QueryExecutor.execute_transaction, one step per call on the connection.
\* The server decides whether a call succeeds; a call on a connection that
\* was lost fails.
\* ------------------------------------------------------------------------
MaxQueries == 3

Statements == {"UPDATE cars SET price = 1", "DELETE FROM orders"}
QueryLists == UNION {[1..n -> Statements] : n \in 0..MaxQueries}

MySQLError == Some("MySQLError")
Failed(call) == call \o ": MySQLError"

NoTranslationRequest ==
    /\ text = "" /\ available_tables = <<>> /\ components = None /\ conditions = None
    /\ sql_query = None /\ mongo_query = None /\ pipeline = None

InitTransaction ==
    /\ NoTranslationRequest
    /\ queries \in QueryLists
    /\ tx_pc = "connect"
    /\ tx_i = 1
    /\ connection = "none"
    /\ calls = <<>>
    /\ raised = None
    /\ NoConversation

\* connection = connect(**self.mysql_config); on failure the error is logged
\* and re-raised, and finally finds connection None
Connect ==
    /\ tx_pc = "connect"
    /\ \/ connection' = "open" /\ calls' = Append(calls, "connect") /\ tx_pc' = "cursor"
          /\ raised' = raised
       \/ connection' = connection /\ calls' = Append(calls, Failed("connect"))
          /\ tx_pc' = "done" /\ raised' = MySQLError
    /\ UNCHANGED <<queries, tx_i, translation, chat>>

\* with connection.cursor() as cursor
OpenCursor ==
    /\ tx_pc = "cursor"
    /\ \/ connection = "open" /\ calls' = Append(calls, "cursor") /\ tx_pc' = "start"
          /\ raised' = raised
       \/ calls' = Append(calls, Failed("cursor")) /\ tx_pc' = "finally" /\ raised' = MySQLError
    /\ UNCHANGED <<queries, tx_i, connection, translation, chat>>

\* connection.start_transaction(), outside the inner try
StartTransaction ==
    /\ tx_pc = "start"
    /\ \/ connection = "open" /\ calls' = Append(calls, "start_transaction")
          /\ tx_pc' = "execute" /\ raised' = raised
       \/ calls' = Append(calls, Failed("start_transaction")) /\ tx_pc' = "finally"
          /\ raised' = MySQLError
    /\ UNCHANGED <<queries, tx_i, connection, translation, chat>>

\* ExecuteQuery with the failure of a query leaving the call at once
ExecuteQuery_no_rollback ==
    /\ tx_pc = "execute"
    /\ tx_i <= Len(queries)
    /\ \/ connection = "open" /\ calls' = Append(calls, "execute") /\ tx_i' = tx_i + 1
          /\ tx_pc' = tx_pc /\ raised' = raised
       \/ calls' = Append(calls, Failed("execute")) /\ tx_i' = tx_i /\ tx_pc' = "finally"
          /\ raised' = MySQLError
    /\ UNCHANGED <<queries, connection, translation, chat>>

\* cursor.execute(query) for the next query of the list
ExecuteQuery ==
    /\ tx_pc = "execute"
    /\ tx_i <= Len(queries)
    /\ \/ connection = "open" /\ calls' = Append(calls, "execute") /\ tx_i' = tx_i + 1
          /\ tx_pc' = tx_pc
       \/ calls' = Append(calls, Failed("execute")) /\ tx_i' = tx_i /\ tx_pc' = "rollback"
    /\ UNCHANGED <<queries, connection, raised, translation, chat>>

\* connection.commit() after the loop, inside the inner try
Commit ==
    /\ tx_pc = "execute"
    /\ tx_i > Len(queries)
    /\ \/ connection = "open" /\ calls' = Append(calls, "commit") /\ tx_pc' = "finally"
       \/ calls' = Append(calls, Failed("commit")) /\ tx_pc' = "rollback"
    /\ UNCHANGED <<queries, tx_i, connection, raised, translation, chat>>

\* except MySQLError: connection.rollback(); raise
Rollback ==
    /\ tx_pc = "rollback"
    /\ \/ connection = "open" /\ calls' = Append(calls, "rollback")
       \/ calls' = Append(calls, Failed("rollback"))
    /\ raised' = MySQLError
    /\ tx_pc' = "finally"
    /\ UNCHANGED <<queries, tx_i, connection, translation, chat>>

\* finally: if connection and connection.is_connected(): connection.close()
CloseConnection ==
    /\ tx_pc = "finally"
    /\ IF connection = "open"
       THEN connection' = "closed" /\ calls' = Append(calls, "close")
       ELSE UNCHANGED <<connection, calls>>
    /\ tx_pc' = "done"
    /\ UNCHANGED <<queries, tx_i, raised, translation, chat>>

\* the server or the network drops the connection: is_connected() is false
\* from then on
ConnectionLost ==
    /\ tx_pc \in {"cursor", "start", "execute", "rollback", "finally"}
    /\ connection = "open"
    /\ connection' = "lost"
    /\ UNCHANGED <<queries, tx_pc, tx_i, calls, raised, translation, chat>>

NextTransaction ==
    \/ Connect
    \/ OpenCursor
    \/ StartTransaction
    \/ ExecuteQuery
    \/ Commit
    \/ Rollback
    \/ CloseConnection
    \/ ConnectionLost

SpecTransaction == InitTransaction /\ [][NextTransaction]_vars

\* ------------------------------------------------------------------------
\* The conversation of main.py, one action per handler. A handler runs to
\* its end before the next update is handled, and its replies are delivered.
\* The catalogs a refresh finds and the answer of the store to a query are
\* the store's to decide.
\* ------------------------------------------------------------------------
MaxRows == 12

MongoCatalogs == {<<>>, <<"movies", "cars">>}
MySQLCatalogs == {<<>>, <<"cars", "orders">>}
QueryInputs ==
    {"Cars", "find all orders", "show all title from movies", "find cars below 5",
     "back to menu"}
RowCounts == {0, 10, MaxRows}
Answers == {[failed |-> TRUE, rows |-> 0]} \cup {[failed |-> FALSE, rows |-> n] : n \in RowCounts}

InitConversation ==
    /\ NoTranslationRequest
    /\ NoTransaction
    /\ NoConversation

\* dict.get(k) and the list as a set
Get(d, k) == IF k \in DOMAIN d THEN Some(d[k]) ELSE None
Elems(l) == {l[i] : i \in 1..Len(l)}

Run(handler, replies) == [NoRun EXCEPT !.handler = handler, !.replies = replies]

\* the handler of conversation c returns st after doing run
Returns(c, st, run) ==
    /\ state' = [state EXCEPT ![c] = st]
    /\ last' = [run EXCEPT !.conv = c]

\* /start with no conversation under way, 'Back to Menu' in every state
start(c) ==
    /\ Returns(c, "CHOOSING", Run("start", <<"Welcome">>))
    /\ UNCHANGED <<user_data, translation, executor>>

\* 'Help' in CHOOSING, the fallback /help in every state
help_command(c) ==
    /\ state[c] # "END"
    /\ Returns(c, "CHOOSING", Run("help_command", <<"Help">>))
    /\ UNCHANGED <<user_data, translation, executor>>

handle_upload_data(c) ==
    /\ state[c] = "CHOOSING"
    /\ Returns(c, "UPLOAD_FILE",
               Run("handle_upload_data", <<"Please choose the type of file you want to upload:">>))
    /\ UNCHANGED <<user_data, translation, executor>>

handle_file_type_selection(c) ==
    /\ state[c] = "UPLOAD_FILE"
    /\ \E message \in {"CSV", "JSON"} :
          /\ user_data' = [user_data EXCEPT ![User(c)] = Put(@, "file_type", upper(message))]
          /\ Returns(c, "UPLOAD_FILE",
                     Run("handle_file_type_selection", <<"Please upload your " \o upper(message) \o " file.">>))
    /\ UNCHANGED <<translation, executor>>

\* the upload either goes through or raises; both return CHOOSING
handle_file_upload(c) ==
    /\ state[c] = "UPLOAD_FILE"
    /\ \E uploaded \in BOOLEAN :
          LET file_type == Get(user_data[User(c)], "file_type")
              replies ==
                  IF file_type = None THEN <<>>
                  ELSE IF ~uploaded THEN <<"Error processing file: ">>
                  ELSE IF file_type[1] = "CSV" THEN <<"CSV data has been uploaded to MySQL table">>
                  ELSE <<"JSON data has been uploaded to MongoDB collection">>
          IN  Returns(c, "CHOOSING", Run("handle_file_upload", replies))
    /\ UNCHANGED <<user_data, translation, executor>>

\* user_data.clear(), then the two catalog snapshots; a store that cannot
\* be read gives an empty catalog
show_data_overview(c) ==
    /\ state[c] = "CHOOSING"
    /\ \E mongodb_details \in MongoCatalogs, mysql_details \in MySQLCatalogs :
          user_data' = [user_data EXCEPT ![User(c)] =
                           Put(Put(EmptyDict, "mongodb_collections", mongodb_details),
                               "mysql_tables", mysql_details)]
    /\ Returns(c, "QUERY_DATA", Run("show_data_overview", <<"Available Data Sources">>))
    /\ UNCHANGED <<translation, executor>>

show_sample_queries(c) ==
    /\ state[c] = "CHOOSING"
    /\ Returns(c, "CHOOSING", Run("show_sample_queries", <<"Sample Queries">>))
    /\ UNCHANGED <<user_data, translation, executor>>

\* 'Exit' in CHOOSING, the fallback /cancel in every state
cancel(c) ==
    /\ state[c] # "END"
    /\ Returns(c, "END", Run("cancel", <<"Goodbye! Type /start to begin again.">>))
    /\ UNCHANGED <<user_data, translation, executor>>

\* user_data with the snapshots refreshed when one is missing
Refreshed(data, mongodb_details, mysql_details) ==
    IF "mongodb_collections" \notin DOMAIN data \/ "mysql_tables" \notin DOMAIN data
    THEN Put(Put(data, "mongodb_collections", mongodb_details), "mysql_tables", mysql_details)
    ELSE data

\* what handle_database_selection does on user_data d: an empty catalog is
\* reported and nothing is selected
database_selection(data, selection) ==
    LET available ==
            data[IF selection = "Query MongoDB" THEN "mongodb_collections" ELSE "mysql_tables"]
    IN  IF available = <<>>
        THEN [data |-> data,
              did |-> Run("handle_database_selection",
                          <<IF selection = "Query MongoDB"
                            THEN "No MongoDB collections available."
                            ELSE "No MySQL tables available.">>)]
        ELSE [data |-> Put(data, "selected_db", selection),
              did |-> Run("handle_database_selection",
                          <<IF selection = "Query MongoDB"
                            THEN "Available MongoDB Collections:"
                            ELSE "Available MySQL Tables:">>)]

handle_database_selection(c) ==
    /\ state[c] = "QUERY_DATA"
    /\ \E selection \in {"Query MongoDB", "Query MySQL"},
          mongodb_details \in MongoCatalogs, mysql_details \in MySQLCatalogs :
          LET done(r) ==
                  /\ user_data' = [user_data EXCEPT ![User(c)] = r.data]
                  /\ Returns(c, "QUERY_DATA", r.did)
          IN  done(database_selection(
                       Refreshed(user_data[User(c)], mongodb_details, mysql_details),
                       selection))
    /\ UNCHANGED <<translation, executor>>

\* the query patterns of handle_query, tried with re.match on the lower-cased
\* input in the order of the dict; the first that matches gives the target
\* (and the field)
FindAllRe == Cat(<<Lit("find"), Ws1, Lit("all"), Ws1, Grp(1, Word1), Eos>>)
ShowAllFieldRe ==
    Cat(<<Lit("show"), Ws1, Lit("all"), Ws1, Grp(1, Word1), Ws1, Words(<<"in", "from">>), Ws1,
          Grp(2, Word1), Eos>>)
NameRe == Cat(<<Grp(1, Word1), Eos>>)

query_patterns(t) ==
    LET rematch(re) == Match(<<re>>, t, 1, NoGroups, FALSE)
        name(m) ==
            IF m.ok THEN [target |-> Some(group(t, m, 1)), field |-> None]
            ELSE [target |-> None, field |-> None]
        show_all_field(m) ==
            IF m.ok THEN [target |-> Some(group(t, m, 2)), field |-> Some(group(t, m, 1))]
            ELSE name(rematch(NameRe))
        find_all(m) ==
            IF m.ok THEN [target |-> Some(group(t, m, 1)), field |-> None]
            ELSE show_all_field(rematch(ShowAllFieldRe))
    IN  find_all(rematch(FindAllRe))

\* the query each path builds for a target (and a field)
mongo_find(q) ==
    IF q.field = None THEN "{'find': {}}"
    ELSE "{'find': {}, 'projection': {'" \o q.field[1] \o "': 1, '_id': 0}}"
sql_select(q) ==
    "SELECT " \o (IF q.field = None THEN "*" ELSE q.field[1]) \o " FROM " \o q.target[1]
        \o " LIMIT 10"

\* execute with a second call after a failed one
execute_retrying(answer) ==
    [calls |-> IF answer.failed THEN 2 ELSE 1, failed |-> answer.failed, rows |-> answer.rows]

\* results = query_executor.execute_..._query(...): one call, the store's answer
execute(answer) == [calls |-> 1, failed |-> answer.failed, rows |-> answer.rows]

\* results_list = list(results)[:10]
DisplayCap == 10
results_list(rows) == IF rows > DisplayCap THEN DisplayCap ELSE rows

Executed(backend, q, query, r, shown, replies) ==
    [NoRun EXCEPT !.handler = "handle_query", !.replies = replies, !.executions = r.calls,
                  !.backend = backend, !.target = q.target[1], !.query = query,
                  !.failed = r.failed, !.returned = r.rows, !.shown = shown]

\* the MongoDB path of handle_query for parsed input q
query_mongodb(collections, q, answer) ==
    LET documents(n) ==
            IF n = 0 THEN <<"No documents found.">>
            ELSE [i \in 1..n |-> "Document " \o str(i) \o ":"]
                 \o (IF n = DisplayCap THEN <<"(Showing first 10 documents)">> ELSE <<>>)
        shown(r) == IF r.failed THEN 0 ELSE results_list(r.rows)
        results(r) ==
            Executed("Query MongoDB", q, mongo_find(q), r, shown(r),
                     <<"MongoDB Query:">>
                     \o (IF r.failed THEN <<"Error executing query: store error">>
                         ELSE documents(shown(r))))
    IN  IF q.target = None \/ q.target[1] \notin Elems(collections)
        THEN Run("handle_query", <<"Please specify a valid collection name.">>)
        ELSE results(execute(answer))

\* the MySQL path: every row of the result is put in the table
query_mysql(tables, q, answer) ==
    LET results(r) ==
            Executed("Query MySQL", q, sql_select(q), r, IF r.failed THEN 0 ELSE r.rows,
                     <<"SQL Query:">>
                     \o (IF r.failed THEN <<"Error executing query: store error">>
                         ELSE IF r.rows = 0 THEN <<"No results found.">>
                         ELSE <<"Columns 1-", "Total rows: " \o str(r.rows)>>))
    IN  IF q.target = None \/ q.target[1] \notin Elems(tables)
        THEN Run("handle_query", <<"Please specify a valid table name.">>)
        ELSE results(execute(answer))

\* query_handling without the check that a backend was selected
query_handling_unchecked(data, user_input, answer) ==
    IF lower(user_input) = "back to menu"
    THEN [next |-> "CHOOSING", did |-> Run("handle_query", <<"Welcome">>)]
    ELSE [next |-> "QUERY_DATA",
          did |-> IF Get(data, "selected_db") = Some("Query MongoDB")
                  THEN query_mongodb(data["mongodb_collections"],
                                     query_patterns(lower(user_input)), answer)
                  ELSE query_mysql(data["mysql_tables"],
                                   query_patterns(lower(user_input)), answer)]

\* handle_query on user_data `data`: the state it returns and what it did
query_handling(data, user_input, answer) ==
    IF lower(user_input) = "back to menu"
    THEN [next |-> "CHOOSING", did |-> Run("handle_query", <<"Welcome">>)]
    ELSE IF ~Truthy(Get(data, "selected_db"))
    THEN [next |-> "QUERY_DATA",
          did |-> Run("handle_query", <<"Please select a database type first.">>)]
    ELSE [next |-> "QUERY_DATA",
          did |-> IF data["selected_db"] = "Query MongoDB"
                  THEN query_mongodb(data["mongodb_collections"],
                                     query_patterns(lower(user_input)), answer)
                  ELSE query_mysql(data["mysql_tables"],
                                   query_patterns(lower(user_input)), answer)]

\* any other text in QUERY_DATA
handle_query(c) ==
    /\ state[c] = "QUERY_DATA"
    /\ \E user_input \in QueryInputs, answer \in Answers :
          LET done(r) == Returns(c, r.next, r.did)
          IN  done(query_handling(user_data[User(c)], user_input, answer))
    /\ UNCHANGED <<user_data, translation, executor>>

NextConversation ==
    \/ \E c \in Conversations : start(c)
    \/ \E c \in Conversations : help_command(c)
    \/ \E c \in Conversations : handle_upload_data(c)
    \/ \E c \in Conversations : handle_file_type_selection(c)
    \/ \E c \in Conversations : handle_file_upload(c)
    \/ \E c \in Conversations : show_data_overview(c)
    \/ \E c \in Conversations : show_sample_queries(c)
    \/ \E c \in Conversations : cancel(c)
    \/ \E c \in Conversations : handle_database_selection(c)
    \/ \E c \in Conversations : handle_query(c)

SpecConversation == InitConversation /\ [][NextConversation]_vars

\* ------------------------------------------------------------------------
\* Properties
\* ------------------------------------------------------------------------
EndsWith(s, suffix) == Len(suffix) <= Len(s) /\ From(s, Len(s) - Len(suffix) + 1) = suffix

\* the clause keywords in the order of the relational text, and the IR field
\* that decides each
ClauseKeywords == <<"SELECT ", "FROM ", "WHERE ", "GROUP BY ", "HAVING ", "ORDER BY ", "LIMIT ">>
ClausePresent(c) ==
    <<TRUE, c.from # None, c.where # <<>>, c.group_by # <<>>, c.having # <<>>,
      c.order_by # None, c.limit # None>>
OnlyFrom(c) ==
    /\ c.from # None /\ c.where = <<>> /\ c.group_by = <<>> /\ c.having = <<>>
    /\ c.order_by = None /\ c.limit = None /\ c.aggregates = <<>>

ClauseOrderOf(c, q) ==
    /\ \A k \in 1..Len(ClauseKeywords) : (Find(q, ClauseKeywords[k]) # 0) <=> ClausePresent(c)[k]
    /\ \A j, k \in 1..Len(ClauseKeywords) :
          (j < k /\ ClausePresent(c)[j] /\ ClausePresent(c)[k])
              => Find(q, ClauseKeywords[j]) < Find(q, ClauseKeywords[k])
    /\ OnlyFrom(c) => q = "SELECT " \o join(", ", c.select) \o " FROM " \o c.from[1]

\* C1: the relational text holds the clause keywords in the order SELECT, FROM,
\* WHERE, GROUP BY, HAVING, ORDER BY, LIMIT, a keyword is in the text exactly
\* when its IR field is non-empty, and an IR with only from set renders as
\* "SELECT <cols> FROM <entity>" with nothing after the entity
C1_ClauseOrder ==
    (components # None /\ sql_query # None) => ClauseOrderOf(components[1], sql_query[1])

C1_Witness ==
    /\ components # None /\ sql_query # None
    /\ \A k \in 1..Len(ClauseKeywords) : ClausePresent(components[1])[k]
    /\ EndsWith(sql_query[1], "GROUP BY status HAVING AVG(price) > 5 ORDER BY price DESC LIMIT 5")

\* the $match stage a pipeline starts with, the empty dict when it has none
MatchOf(p) == IF Len(p) > 0 /\ p[1].stage = "$match" THEN p[1].spec ELSE EmptyDict

ClosedOps(c) == \A i \in 1..Len(c.where) : c.where[i][2] \in Ops
BothPipelines == components # None /\ mongo_query # None /\ pipeline # None

\* C2: for an IR whose where list uses the six operators, the $match stage
\* re-parsed from the relational text equals the $match stage built from the
\* IR's where list, in fields, operators and values with their types
C2_MatchRoundTrip ==
    (BothPipelines /\ components[1].where # <<>> /\ ClosedOps(components[1]))
        => /\ ~mongo_query[1].exc /\ ~pipeline[1].exc
           /\ MatchOf(mongo_query[1].pipeline) = MatchOf(pipeline[1].pipeline)

\* an IR both entry points have a clause for: select, from and where only
InBoth(c) ==
    /\ c.from # None /\ c.group_by = <<>> /\ c.having = <<>> /\ c.aggregates = <<>>
    /\ c.order_by = None /\ c.limit = None /\ ClosedOps(c)

\* C3: for an IR expressible in both entry points, the IR-driven builder and
\* the text-driven path return the same ordered stage sequence
C3_EntryPointsAgree ==
    (BothPipelines /\ InBoth(components[1]))
        => /\ ~mongo_query[1].exc /\ ~pipeline[1].exc
           /\ mongo_query[1].pipeline = pipeline[1].pipeline

\* l holds a and b as neighbours, in this order
Adjacent(l, a, b) == \E i \in 1..(Len(l) - 1) : l[i] = a /\ l[i + 1] = b

\* C4: a request text with "<field> between <low> and <high>" yields the two
\* conditions (field, >=, low) and (field, <=, high) for that span
C4_BetweenCaptured ==
    (conditions # None /\ search(BetweenRe, text).ok)
        => LET m == search(BetweenRe, text)
           IN  Adjacent(conditions[1], <<group(text, m, 1), ">=", group(text, m, 2)>>,
                                       <<group(text, m, 1), "<=", group(text, m, 3)>>)

\* a where list that is a lowered BETWEEN: (f, >=, lo), (f, <=, hi)
LoweredBetween(w) ==
    /\ Len(w) = 2 /\ w[1][1] = w[2][1] /\ w[1][2] = ">=" /\ w[2][2] = "<="

\* the $match dict d enforces the condition: its field carries the operator
Enforced(d, cond) == cond[1] \in DOMAIN d /\ d[cond[1]].op = operator_map[cond[2]]

\* C5: a lowered BETWEEN renders as "f >= lo AND f <= hi" and both of its
\* bounds are enforced by the $match stage of the pipeline
C5_BothBoundsKept ==
    (components # None /\ LoweredBetween(components[1].where))
        => LET w == components[1].where
           IN  /\ sql_query # None =>
                    In(w[1][1] \o " >= " \o w[1][3] \o " AND " \o w[2][1] \o " <= " \o w[2][3],
                       sql_query[1])
               /\ pipeline # None =>
                    \A i \in 1..2 : Enforced(MatchOf(pipeline[1].pipeline), w[i])
               /\ mongo_query # None =>
                    \A i \in 1..2 : Enforced(MatchOf(mongo_query[1].pipeline), w[i])

\* C6: when no catalog entity is recognized in the request text, no relational
\* query text is produced for the IR, whose from is None
C6_NoTextWithoutTarget ==
    (text # "" /\ components # None /\ components[1].from = None) => sql_query = None

\* C7: after extraction from is None or an entry of the catalog, and when it
\* is None every other field of the IR is at its default
C7_FromInCatalog ==
    (text # "" /\ components # None)
        => /\ \/ components[1].from = None
              \/ \E j \in 1..Len(available_tables) : available_tables[j] = components[1].from[1]
           /\ components[1].from = None => components[1] = DefaultComponents

C7_Witness ==
    /\ text = "average rating from movies"
    /\ available_tables = <<"orders", "cars">>
    /\ components = Some(DefaultComponents)

C7_WitnessResolved ==
    /\ text # "" /\ components # None
    /\ components[1].from = Some("cars") /\ available_tables = <<"orders", "cars">>

\* a digit string with at most one decimal point
StrictNumeric(v) == isdigit(remove(v, ".")) /\ Len(split(v, ".")) <= 2

\* an IR with one where condition and no later clause: the text ends with it
OneCondition(c) ==
    /\ Len(c.where) = 1 /\ c.group_by = <<>> /\ c.having = <<>>
    /\ c.order_by = None /\ c.limit = None
Bare(c, q) == EndsWith(q, " " \o c.where[1][2] \o " " \o c.where[1][3])
Quoted(c, q) == EndsWith(q, " " \o c.where[1][2] \o " '" \o c.where[1][3] \o "'")

\* C8: a where value is rendered unquoted exactly when it is a strict numeric
\* literal, and single-quoted otherwise
C8_QuoteUnlessNumeric ==
    (components # None /\ sql_query # None /\ OneCondition(components[1]))
        => /\ Bare(components[1], sql_query[1]) <=> StrictNumeric(components[1].where[1][3])
           /\ Quoted(components[1], sql_query[1]) <=> ~StrictNumeric(components[1].where[1][3])

\* the value the re-parsed $match carries for the one condition of the IR
Carried(c, m) == MatchOf(m.pipeline)[c.where[1][1]].val

\* C9: a where value is unquoted in the relational text exactly when the
\* pipeline derived from that text carries a number, and quoted exactly when
\* it carries a string
C9_TypesAgree ==
    (components # None /\ sql_query # None /\ mongo_query # None /\ OneCondition(components[1])
       /\ ClosedOps(components[1]))
        => /\ ~mongo_query[1].exc
           /\ components[1].where[1][1] \in DOMAIN MatchOf(mongo_query[1].pipeline)
           /\ Bare(components[1], sql_query[1])
                 <=> Carried(components[1], mongo_query[1]).t \in {"int", "float"}
           /\ Quoted(components[1], sql_query[1])
                 <=> Carried(components[1], mongo_query[1]).t = "str"

\* FUNC(field) AS alias
Rendered(agg) == agg[1] \o "(" \o agg[2] \o ") AS " \o agg[3]
SelectList(c) ==
    IF c.select = <<>> /\ c.aggregates = <<>> THEN "*"
    ELSE join(", ", c.select \o [i \in 1..Len(c.aggregates) |-> Rendered(c.aggregates[i])])

\* C10: the SELECT list is the plain select columns followed by every
\* aggregate as FUNC(field) AS alias, in IR order, and * when both are empty
C10_SelectList ==
    (components # None /\ sql_query # None)
        => LET c == components[1]
               q == sql_query[1]
               list == "SELECT " \o SelectList(c)
           IN  /\ SubSeq(q, 1, IF Len(list) < Len(q) THEN Len(list) ELSE Len(q)) = list
               /\ Len(q) > Len(list) => SubSeq(q, Len(list) + 1, Len(list) + 1) = " "

\* the request names an entry of the catalog
NamesEntity(t, tables) == \E j \in 1..Len(tables) : In(tables[j], lower(t))

\* "grouped by F" in the request, and F
GroupedByRe == Cat(<<Lit("grouped"), Ws1, Lit("by"), Ws1, Field>>)
GroupedBy(t) == group(t, search(GroupedByRe, t), 1)

\* a request for a grouped count and nothing else: a count cue, a
\* "grouped by F" phrase, a catalog entity, no ordering phrase
GroupedCount(t, tables) ==
    /\ In("count", lower(t)) /\ search(GroupedByRe, t).ok /\ NamesEntity(t, tables)
    /\ ~searchI(GroupedOrderRe, lower(t)).ok

\* [$group{_id: $F, count_total: {$sum: 1}}, $project{F: $_id, count_total: 1, _id: 0}]
GroupedCountPipeline(F) ==
    <<Stage("$group", Put(Put(EmptyDict, "_id", Entry("eq", StrV("$" \o F))),
                          "count_total", Entry("$sum", IntV(1)))),
      Stage("$project", Put(Put(Put(EmptyDict, F, Entry("eq", StrV("$_id"))),
                                "count_total", Entry("eq", IntV(1))),
                            "_id", Entry("eq", IntV(0))))>>

LimitPhraseRe == Cat(<<Words(<<"top", "first", "limit">>), Ws1, Grp(1, Digit1)>>)

\* C12: a request that names a catalog entity and contains top N, first N or
\* limit N with N positive yields an IR whose limit is N, and the relational
\* text ends with LIMIT N
C12_LimitExtracted ==
    (components # None /\ text # "" /\ NamesEntity(text, available_tables)
       /\ search(LimitPhraseRe, lower(text)).ok /\ extract_limit(text) # None
       /\ extract_limit(text)[1] > 0)
        => /\ components[1].limit = extract_limit(text)
           /\ sql_query # None => EndsWith(sql_query[1], " LIMIT " \o str(extract_limit(text)[1]))

\* the pipeline operator the contract gives each relational operator
PipelineOp(op) ==
    CASE op = "=" -> "eq" [] op = ">" -> "$gt" [] op = "<" -> "$lt"
      [] op = ">=" -> "$gte" [] op = "<=" -> "$lte" [] op = "!=" -> "$ne"

\* the one entry of the $match stage of pipeline p is on field f with operator o
MatchesWith(p, f, o) == DOMAIN MatchOf(p) = {f} /\ MatchOf(p)[f].op = o

\* C13: every operator of {=, >, <, >=, <=, !=} is rendered as itself in the
\* relational text and is mapped to its own pipeline operator, different from
\* that of every other operator; a single condition rendered and re-parsed
\* comes back on the same field with the same operator, on both entry points
C13_OperatorMapping ==
    /\ DOMAIN operator_map = Ops
    /\ \A a, b \in Ops : operator_map[a] = PipelineOp(a) /\ (a # b => operator_map[a] # operator_map[b])
    /\ (components # None /\ OneCondition(components[1]) /\ ClosedOps(components[1]))
          => /\ sql_query # None =>
                   Bare(components[1], sql_query[1]) \/ Quoted(components[1], sql_query[1])
             /\ mongo_query # None =>
                   /\ ~mongo_query[1].exc
                   /\ MatchesWith(mongo_query[1].pipeline, components[1].where[1][1],
                                  PipelineOp(components[1].where[1][2]))
             /\ pipeline # None =>
                   /\ ~pipeline[1].exc
                   /\ MatchesWith(pipeline[1].pipeline, components[1].where[1][1],
                                  PipelineOp(components[1].where[1][2]))

C13_Witness ==
    /\ components # None /\ OneCondition(components[1])
    /\ components[1].where[1][2] = ">="
    /\ sql_query # None /\ In(" price >= ", sql_query[1])
    /\ mongo_query # None /\ MatchesWith(mongo_query[1].pipeline, "price", "$gte")
    /\ pipeline # None

\* position of a stage in the fixed order $match, $group, $project, $sort, $limit
StageRank(name) ==
    CASE name = "$match" -> 1 [] name = "$group" -> 2 [] name = "$project" -> 3
      [] name = "$sort" -> 4 [] name = "$limit" -> 5 [] OTHER -> 0

\* the IR clause a stage comes from is non-empty
SourceClause(c, name) ==
    CASE name = "$match" -> c.where # <<>>
      [] name = "$group" -> c.group_by # <<>>
      [] name = "$project" -> c.group_by # <<>>
      [] name = "$sort" -> c.order_by # None
      [] name = "$limit" -> c.limit # None
      [] OTHER -> FALSE

\* stage i of p is a $group that the $project renaming _id to field F follows
Renamed(p, i, F) ==
    /\ p[i].spec["_id"] = Entry("eq", StrV("$" \o F))
    /\ i < Len(p) /\ p[i + 1].stage = "$project"
    /\ F \in DOMAIN p[i + 1].spec /\ p[i + 1].spec[F] = Entry("eq", StrV("$_id"))
    /\ p[i + 1].spec["_id"] = Entry("eq", IntV(0))

StageOrderOf(c, p) ==
    /\ \A i \in 1..(Len(p) - 1) : StageRank(p[i].stage) < StageRank(p[i + 1].stage)
    /\ \A i \in 1..Len(p) : SourceClause(c, p[i].stage)
    /\ \A i \in 1..Len(p) : p[i].stage = "$group" => Renamed(p, i, c.group_by[1])

\* C14: in a pipeline returned by generate_mongo_query the stages are in the
\* order $match, $group, $project, $sort, $limit, each stage comes from a
\* non-empty clause of the query, and a $group is immediately followed by the
\* $project that renames _id back to the grouping field
C14_StageOrder ==
    (components # None /\ mongo_query # None /\ ~mongo_query[1].exc)
        => StageOrderOf(components[1], mongo_query[1].pipeline)

C14_Witness ==
    /\ components # None /\ mongo_query # None /\ ~mongo_query[1].exc
    /\ [i \in 1..Len(mongo_query[1].pipeline) |-> mongo_query[1].pipeline[i].stage]
           = <<"$match", "$group", "$project", "$sort", "$limit">>

\* stage i of p is a $match placed after the stages of where and grouping and
\* before $sort and $limit
PostAggregation(c, p, i) ==
    /\ p[i].stage = "$match"
    /\ c.where # <<>> => i > 1
    /\ c.group_by # <<>> => i > 1 /\ p[i - 1].stage = "$project"
    /\ \A j \in (i + 1)..Len(p) : p[j].stage \in {"$sort", "$limit"}

\* the $match dict d applies the having condition: some entry carries its
\* operator and its value coerced to a number
Applied(d, cond) ==
    \E f \in DOMAIN d : d[f].op = PipelineOp(cond[2]) /\ d[f].val = Coerce(cond[3])

\* C15: for a query with a non-empty having clause the pipeline holds a
\* post-aggregation $match, after the $group/$project pair and before $sort
\* and $limit, that applies every having condition with the operator mapping
\* of where and a numerically coerced value
C15_HavingMatch ==
    (components # None /\ mongo_query # None /\ components[1].having # <<>>)
        => /\ ~mongo_query[1].exc
           /\ \E i \in 1..Len(mongo_query[1].pipeline) :
                 /\ PostAggregation(components[1], mongo_query[1].pipeline, i)
                 /\ \A k \in 1..Len(components[1].having) :
                       Applied(mongo_query[1].pipeline[i].spec, components[1].having[k])

\* an IR that selects plain columns and requests no aggregation
PlainSelect(c) ==
    c.aggregates = <<>> /\ c.group_by = <<>> /\ c.select # <<>> /\ c.select # <<"*">>

\* the $project spec that keeps exactly the columns and drops _id unless selected
KeepsColumns(d, cols) ==
    /\ DOMAIN d = {cols[i] : i \in 1..Len(cols)} \cup {"_id"}
    /\ \A i \in 1..Len(cols) : d[cols[i]] = Entry("eq", IntV(1))
    /\ (\A i \in 1..Len(cols) : cols[i] # "_id") => d["_id"] = Entry("eq", IntV(0))

HasProject(p, cols) ==
    \E i \in 1..Len(p) : p[i].stage = "$project" /\ KeepsColumns(p[i].spec, cols)

\* C16: for an IR with plain select columns and no aggregation, the pipeline
\* of the IR-driven builder and the pipeline derived from the relational text
\* both hold a $project that keeps exactly those columns and excludes _id
\* unless it is selected
C16_PlainProject ==
    (components # None /\ PlainSelect(components[1]))
        => /\ pipeline # None =>
                 ~pipeline[1].exc /\ HasProject(pipeline[1].pipeline, components[1].select)
           /\ (mongo_query # None /\ components[1].from # None) =>
                 ~mongo_query[1].exc /\ HasProject(mongo_query[1].pipeline, components[1].select)

\* C17: a request that names a catalog entity and holds an aggregate phrase
\* followed by an operand field yields an IR whose aggregates hold the
\* matching (function, field, alias), and whose select is no longer the
\* default
C17_AggregateExtracted ==
    (components # None /\ text # "" /\ NamesEntity(text, available_tables)
       /\ extract_aggregation(text) # None)
        => /\ \E i \in 1..Len(components[1].aggregates) :
                 components[1].aggregates[i] = extract_aggregation(text)[1]
           /\ components[1].select # <<"*">>

HasStage(p, name) == \E i \in 1..Len(p) : p[i].stage = name

\* C18: for an IR whose limit is 0 or negative the relational text has no
\* LIMIT clause and the pipeline derived from it has no $limit stage
C18_NonPositiveLimitDropped ==
    (components # None /\ components[1].limit # None /\ components[1].limit[1] <= 0)
        => /\ sql_query # None => ~In("LIMIT", sql_query[1])
           /\ mongo_query # None =>
                 ~mongo_query[1].exc /\ ~HasStage(mongo_query[1].pipeline, "$limit")

\* the field names an IR holds: select columns, where fields, group_by, the
\* operands of having, the order_by field
FieldNames(c) ==
    ({c.select[i] : i \in 1..Len(c.select)} \ {"*"})
    \cup {c.where[i][1] : i \in 1..Len(c.where)}
    \cup {c.group_by[i] : i \in 1..Len(c.group_by)}
    \cup {SubSeq(c.having[i][1], 5, Len(c.having[i][1]) - 1) : i \in 1..Len(c.having)}
    \cup (IF c.order_by = None THEN {} ELSE {c.order_by[1][1]})

\* C19: every field name extraction places in the IR is spelled as in the
\* original-case request text
C19_OriginalCase ==
    (components # None /\ text # "")
        => \A f \in FieldNames(components[1]) : In(f, text)

\* the request texts whose only upper-case letters are in keywords, so that
\* lower(text) is the same request with its keywords in lower case
KeywordCased ==
    {"find cars ORDER BY price DESC", "cars with price BETWEEN 5 and 9",
     "count orders Grouped By status", "state HAVING avg price > 5 in cars",
     "cars where price Is 5"}

\* which clauses an IR holds, with the operators of its conditions and the
\* direction of its ordering
Clauses(c) ==
    [where    |-> [i \in 1..Len(c.where) |-> c.where[i][2]],
     group_by |-> c.group_by # <<>>,
     having   |-> [i \in 1..Len(c.having) |-> c.having[i][2]],
     order_by |-> IF c.order_by = None THEN None ELSE Some(c.order_by[1][2])]

\* C20: writing the keywords of a request in another case changes neither the
\* clauses of the IR nor their operators and directions
C20_KeywordCase ==
    (components # None /\ text \in KeywordCased)
        => Clauses(components[1])
              = Clauses(extract_query_components(lower(text), available_tables))

\* "order by F" / "sort by F" followed by a descending synonym of the lexicon
DescCueRe ==
    Cat(<<Words(<<"order", "sort">>), Ws1, Lit("by"), Ws1, Field, Ws1, Alt(sort_patterns_DESC)>>)
\* "order by F" / "sort by F" at the end of the request, no cue after it
NoCueRe == Cat(<<Words(<<"order", "sort">>), Ws1, Lit("by"), Ws1, Field, Eos>>)

\* the IR orders by field F (in any letter case) in direction d
OrdersBy(c, F, d) ==
    c.order_by # None /\ lower(c.order_by[1][1]) = lower(F) /\ c.order_by[1][2] = d

\* C24: a descending synonym after the sort field gives order_by (F, DESC),
\* no cue gives (F, ASC)
C24_SortDirection ==
    (components # None /\ text # "" /\ NamesEntity(text, available_tables))
        => /\ search(DescCueRe, text).ok
                => OrdersBy(components[1], group(text, search(DescCueRe, text), 1), "DESC")
           /\ search(NoCueRe, text).ok
                => OrdersBy(components[1], group(text, search(NoCueRe, text), 1), "ASC")

\* the most conditions the sub-spans of a request may contribute: two for a
\* BETWEEN span, one for any other
RECURSIVE SpanBound(_)
SpanBound(spans) ==
    IF Len(spans) = 0 THEN 0
    ELSE (IF search(BetweenRe, spans[1]).ok THEN 2 ELSE 1) + SpanBound(Tail(spans))

\* C25: every 'and'-split sub-span contributes at most one condition, two
\* for a BETWEEN span
C25_FirstMatchWins ==
    conditions # None => Len(conditions[1]) <= SpanBound(resplit(AndRe, text, 0, TRUE))

\* the re-parsed conditions have the fields and operators of the IR's where
\* list, in its order
SameConditions(parsed, where) ==
    /\ Len(parsed) = Len(where)
    /\ \A i \in 1..Len(where) : parsed[i].field = where[i][1] /\ parsed[i].op = where[i][2]

\* C28: the relational text of an IR with n >= 1 where conditions translates
\* without raising, and its re-parsed where list is the IR's, condition by
\* condition
C28_WhereRoundTrip ==
    (components # None /\ sql_query # None /\ mongo_query # None
       /\ components[1].where # <<>>
       /\ \A i \in 1..Len(components[1].where) : components[1].where[i][2] \in Ops)
        => /\ ~mongo_query[1].exc
           /\ SameConditions(parse_sql_query(sql_query[1]).where, components[1].where)

\* C29: a count request for a catalog entity keeps in where the conditions
\* recognized in its text, whether or not it also has a grouping phrase
C29_ConditionsKept ==
    (components # None /\ text # "" /\ components[1].from # None /\ In("count", lower(text)))
        => components[1].where = extract_conditions(text)

\* C30: the pipeline of a relational text with aggregates in SELECT and no
\* GROUP BY has a $group stage with an accumulator under every alias
C30_AggregateGrouped ==
    (components # None /\ sql_query # None /\ mongo_query # None
       /\ components[1].from # None
       /\ components[1].aggregates # <<>> /\ components[1].group_by = <<>>)
        => /\ ~mongo_query[1].exc
           /\ \E i \in 1..Len(mongo_query[1].pipeline) :
                  /\ mongo_query[1].pipeline[i].stage = "$group"
                  /\ \A k \in 1..Len(components[1].aggregates) :
                         components[1].aggregates[k][3] \in DOMAIN mongo_query[1].pipeline[i].spec

\* the calls made before the k-th
Before(k) == SubSeq(calls, 1, k - 1)
Made(call, cs) == \E j \in 1..Len(cs) : cs[j] = call
Count(call, cs) == Cardinality({j \in 1..Len(cs) : cs[j] = call})

\* C26: commit is called only after every query of the list has executed;
\* after a failed query rollback was called, commit never, and the error
\* leaves the call; at the end no connection is left open
C26_AllOrNothing ==
    /\ \A k \in 1..Len(calls) :
           calls[k] \in {"commit", Failed("commit")}
               => /\ Count("execute", Before(k)) = Len(queries)
                  /\ ~Made(Failed("execute"), Before(k))
    /\ (tx_pc = "done" /\ Made(Failed("execute"), calls))
           => /\ Made("rollback", calls) \/ Made(Failed("rollback"), calls)
              /\ ~Made("commit", calls) /\ ~Made(Failed("commit"), calls)
              /\ raised = MySQLError
    /\ tx_pc = "done" => connection # "open"

\* the second query of three fails on an open connection: rolled back,
\* closed, the error raised
C26_Witness ==
    /\ tx_pc = "done" /\ Len(queries) = 3
    /\ calls = <<"connect", "cursor", "start_transaction", "execute", Failed("execute"),
                 "rollback", "close">>
    /\ connection = "closed" /\ raised = MySQLError

\* the session state kept in user_data for the conversation d
SessionKeys == {"mongodb_collections", "mysql_tables", "selected_db"}
Session(d) ==
    [k \in DOMAIN user_data[User(d)] \cap SessionKeys |-> user_data[User(d)][k]]

\* C21: a handler running for one conversation leaves the session state of
\* every other conversation that is in query mode as it was
C21_SessionIsolation ==
    [][\A d \in Conversations :
          (d # last'.conv /\ state[d] = "QUERY_DATA") => Session(d)' = Session(d)]_vars

\* C22: the rows or documents shown for an executed query are at most 10,
\* whatever number the store returned
C22_DisplayCap ==
    (last.handler = "handle_query" /\ last.executions > 0) => last.shown <= DisplayCap

\* C23: a handler invokes the executor at most once, and after a failed
\* execution the error text was sent and the conversation is in QUERY_DATA
C23_NoRetry ==
    /\ last.executions <= 1
    /\ last.failed
          => /\ last.replies[Len(last.replies)] = "Error executing query: store error"
             /\ state[last.conv] = "QUERY_DATA"

\* an execution failed, on the relational backend
C23_Witness ==
    /\ last.handler = "handle_query" /\ last.executions = 1 /\ last.failed
    /\ last.backend = "Query MySQL" /\ state[last.conv] = "QUERY_DATA"

SnapshotKey(backend) ==
    IF backend = "Query MongoDB" THEN "mongodb_collections" ELSE "mysql_tables"
Prompts ==
    {<<"Please select a database type first.">>, <<"Please specify a valid collection name.">>,
     <<"Please specify a valid table name.">>}

\* the step executes only in QUERY_DATA, for the backend selected in
\* user_data d and a target of its snapshot for that backend
Guarded(d) ==
    last'.executions > 0
        => /\ last'.handler = "handle_query"
           /\ state[last'.conv] = "QUERY_DATA"
           /\ "selected_db" \in DOMAIN d
           /\ last'.backend = d["selected_db"]
           /\ last'.target \in Elems(d[SnapshotKey(last'.backend)])

====
